---- MODULE Spec2Model ----
(***************************************************************************)
(* The recipe-ingredient text parser of src/src/parsers/recipe_parser.py   *)
(* as a state machine.                                                     *)
(*                                                                         *)
(* A string is a sequence of characters.  A character is a one-letter      *)
(* string; a non-ASCII glyph is written by its code point ("u25A2" is the  *)
(* checkbox U+25A2, "u00BD" the fraction one half).                        *)
(***************************************************************************)
EXTENDS Integers, Sequences, FiniteSets, TLC

(***************************************************************************)
(* Python string primitives (str methods and the character classes of re). *)
(***************************************************************************)
UPPER == <<"A","B","C","D","E","F","G","H","I","J","K","L","M",
           "N","O","P","Q","R","S","T","U","V","W","X","Y","Z">>

LOWER == <<"a","b","c","d","e","f","g","h","i","j","k","l","m",
           "n","o","p","q","r","s","t","u","v","w","x","y","z">>

UpperSet == {UPPER[i] : i \in 1..Len(UPPER)}

LowerSet == {LOWER[i] : i \in 1..Len(LOWER)}

\* [a-zA-Z]
Letters == UpperSet \cup LowerSet

\* \d
Digits == {"0","1","2","3","4","5","6","7","8","9"}

\* \s, and the characters str.strip() removes
WS == {" ", "\t", "\n", "\r"}

\* the vulgar fractions of the measurement pattern
Fractions == {"u00BC","u00BD","u00BE","u2153","u2154","u215B","u215C","u215D","u215E"}

\* \w: letters, digits, underscore and numeric glyphs
WordChars == Letters \cup Digits \cup {"_"} \cup Fractions

LowerMap == [c \in UpperSet |-> LOWER[CHOOSE i \in 1..Len(UPPER) : UPPER[i] = c]]

UpperMap == [c \in LowerSet |-> UPPER[CHOOSE i \in 1..Len(LOWER) : LOWER[i] = c]]

lower_char(c) == IF c \in UpperSet THEN LowerMap[c] ELSE c

upper_char(c) == IF c \in LowerSet THEN UpperMap[c] ELSE c

\* str.lower()
lower(s) == [i \in 1..Len(s) |-> lower_char(s[i])]

\* str.title(): a cased character is upper-cased after an uncased one, lower-cased after a cased one
title(s) ==
  [i \in 1..Len(s) |->
     IF i > 1 /\ s[i-1] \in Letters THEN lower_char(s[i]) ELSE upper_char(s[i])]

Min(S) == CHOOSE x \in S : \A y \in S : x <= y

Max(S) == CHOOSE x \in S : \A y \in S : x >= y

\* a local variable: the value v is computed first, once, and Body is evaluated with it
With(v, Body(_)) == CHOOSE r \in {Body(x) : x \in {v}} : TRUE

\* re.finditer over s: the matches <<start, end>>, At(i) being the position after the
\* match that starts at i, 0 for none
Matches(s, At(_)) == {h \in {<<i, At(i)>> : i \in 1..Len(s)} : h[2] # 0}

\* the leftmost match
First(hits) == CHOOSE h \in hits : \A g \in hits : h[1] <= g[1]

\* the position after the longest run of characters of S that starts at p
SpanEnd(s, p, S) ==
  LET stop == {q \in p..Len(s) : s[q] \notin S}
  IN  IF stop = {} THEN Len(s) + 1 ELSE Min(stop)

\* the position of the first character of the longest run of characters of S that ends at p
SpanStart(s, p, S) ==
  LET stop == {q \in 1..p : s[q] \notin S}
  IN  IF stop = {} THEN 1 ELSE Max(stop) + 1

\* s[p:] and s[:p-1]
From(s, p) == SubSeq(s, p, Len(s))

Upto(s, p) == SubSeq(s, 1, p)

\* str.lstrip(chars), str.rstrip(chars), str.strip(chars)
lstrip_chars(s, S) == From(s, SpanEnd(s, 1, S))

rstrip_chars(s, S) == Upto(s, SpanStart(s, Len(s), S) - 1)

strip_chars(s, S) == rstrip_chars(lstrip_chars(s, S), S)

\* str.strip()
strip(s) == strip_chars(s, WS)

\* whether lit occurs in s at position p
MatchAt(s, p, lit) ==
  /\ p >= 1
  /\ p + Len(lit) - 1 <= Len(s)
  /\ \A i \in 1..Len(lit) : s[p + i - 1] = lit[i]

\* the same under re.IGNORECASE
MatchAtI(s, p, lit) ==
  /\ p >= 1
  /\ p + Len(lit) - 1 <= Len(s)
  /\ \A i \in 1..Len(lit) : lower_char(s[p + i - 1]) = lower_char(lit[i])

\* `lit in s`
Contains(s, lit) == \E p \in 1..(Len(s) - Len(lit) + 1) : MatchAt(s, p, lit)

\* str.endswith(lit)
endswith(s, lit) == MatchAt(s, Len(s) - Len(lit) + 1, lit)

\* str.split(): the maximal runs of non-whitespace characters
RECURSIVE split_from(_, _)
split_from(s, p) ==
  LET b == SpanEnd(s, p, WS)
  IN  IF b > Len(s) THEN << >>
      ELSE LET e == Min({q \in b..(Len(s) + 1) : q > Len(s) \/ s[q] \in WS})
           IN  <<SubSeq(s, b, e - 1)>> \o split_from(s, e)

split(s) == split_from(s, 1)

\* str.split(sep) for a one-character separator
RECURSIVE split_on(_, _)
split_on(s, sep) ==
  LET hit == {q \in 1..Len(s) : s[q] = sep}
  IN  IF hit = {} THEN <<s>>
      ELSE <<Upto(s, Min(hit) - 1)>> \o split_on(From(s, Min(hit) + 1), sep)

\* ' '.join(parts)
RECURSIVE join(_)
join(parts) ==
  IF Len(parts) = 0 THEN << >>
  ELSE IF Len(parts) = 1 THEN parts[1]
  ELSE parts[1] \o <<" ">> \o join(Tail(parts))


(***************************************************************************)
(* The lexical tables.                                                     *)
(***************************************************************************)
\* Prep words to remove (recipe_parser.py:17-33)
PREP_WORDS ==
  {
    <<"c","h","o","p","p","e","d">>, <<"d","i","c","e","d">>, <<"m","i","n","c","e","d">>,
    <<"g","r","a","t","e","d">>, <<"s","h","r","e","d","d","e","d">>,
    <<"s","l","i","c","e","d">>, <<"p","e","e","l","e","d">>, <<"s","e","e","d","e","d">>,
    <<"f","r","e","s","h">>, <<"f","r","o","z","e","n">>, <<"d","r","i","e","d">>,
    <<"c","o","o","k","e","d">>, <<"u","n","c","o","o","k","e","d">>, <<"r","a","w">>,
    <<"c","u","t">>, <<"h","a","l","v","e","d">>, <<"q","u","a","r","t","e","r","e","d">>,
    <<"w","h","o","l","e">>, <<"b","o","n","e","l","e","s","s">>,
    <<"s","k","i","n","l","e","s","s">>, <<"p","o","u","n","d","e","d">>,
    <<"m","e","l","t","e","d">>, <<"s","o","f","t","e","n","e","d">>,
    <<"b","e","a","t","e","n">>, <<"s","i","f","t","e","d">>, <<"t","r","i","m","m","e","d">>,
    <<"c","u","b","e","d">>, <<"j","u","l","i","e","n","n","e","d">>, <<"r","o","u","g","h">>,
    <<"f","i","n","e","l","y">>, <<"t","h","i","n","l","y">>, <<"t","h","i","c","k","l","y">>,
    <<"s","m","a","s","h","e","d">>, <<"m","a","s","h","e","d">>, <<"p","u","r","e","e","d">>,
    <<"b","l","a","n","c","h","e","d">>, <<"t","o","a","s","t","e","d">>,
    <<"g","r","i","l","l","e","d">>, <<"f","r","i","e","d">>, <<"d","i","v","i","d","e","d">>,
    <<"r","o","o","m">>, <<"t","e","m","p","e","r","a","t","u","r","e">>, <<"m","o","r","e">>,
    <<"t","a","s","t","e">>, <<"n","e","e","d","e","d">>, <<"r","i","n","s","e","d">>,
    <<"d","r","a","i","n","e","d">>, <<"p","a","t","t","e","d">>, <<"d","r","y">>,
    <<"s","q","u","e","e","z","e","d">>, <<"s","t","e","m">>, <<"r","e","m","o","v","e","d">>,
    <<"d","e","v","e","i","n","e","d">>, <<"g","u","t","t","e","d">>,
    <<"s","c","a","l","e","d">>, <<"p","i","t","t","e","d">>, <<"c","o","r","e","d">>,
    <<"r","i","b","b","e","d">>, <<"s","c","r","u","b","b","e","d">>,
    <<"w","a","s","h","e","d">>, <<"s","o","a","k","e","d">>,
    <<"r","e","h","y","d","r","a","t","e","d">>, <<"t","h","a","w","e","d">>,
    <<"d","e","f","r","o","s","t","e","d">>, <<"c","r","u","m","b","l","e","d">>,
    <<"f","l","a","k","e","d">>, <<"t","o","r","n">>, <<"p","u","l","l","e","d">>,
    <<"s","t","r","i","p","p","e","d">>, <<"a","n","d">>
  }

\* Brand names, in source order (recipe_parser.py:36-45)
BRANDS ==
  <<
    <<"K","i","n","g"," ","A","r","t","h","u","r">>, <<"M","c","C","o","r","m","i","c","k">>,
    <<"K","r","a","f","t">>, <<"B","a","r","i","l","l","a">>, <<"R","a","o","'","s">>,
    <<"T","r","a","d","e","r"," ","J","o","e","'","s">>, <<"S","w","a","n","s","o","n">>,
    <<"H","u","n","t","'","s">>, <<"D","e"," ","C","e","c","c","o">>, <<"D","o","l","e">>,
    <<"S","a","r","g","e","n","t","o">>, <<"A","p","p","l","e","g","a","t","e">>,
    <<"B","e","r","t","o","l","l","i">>, <<"G","a","l","b","a","n","i">>,
    <<"S","a","n"," ","M","a","r","z","a","n","o">>, <<"K","e","r","r","y","g","o","l","d">>,
    <<"L","a","n","d"," ","O"," ","L","a","k","e","s">>,
    <<"P","h","i","l","a","d","e","l","p","h","i","a">>,
    <<"H","e","l","l","m","a","n","n","'","s">>, <<"F","r","e","n","c","h","'","s">>,
    <<"H","e","i","n","z">>, <<"K","i","k","k","o","m","a","n">>,
    <<"L","e","e"," ","K","u","m"," ","K","e","e">>,
    <<"G","r","e","y"," ","P","o","u","p","o","n">>, <<"T","a","b","a","s","c","o">>,
    <<"F","r","a","n","k","'","s">>, <<"C","h","o","l","u","l","a">>,
    <<"S","r","i","r","a","c","h","a">>, <<"H","u","y"," ","F","o","n","g">>,
    <<"B","o","b","'","s"," ","R","e","d"," ","M","i","l","l">>,
    <<"G","h","i","r","a","r","d","e","l","l","i">>, <<"C","a","l","l","e","b","a","u","t">>,
    <<"V","a","l","r","h","o","n","a">>, <<"P","e","n","z","e","y","s">>,
    <<"S","i","m","p","l","y"," ","O","r","g","a","n","i","c">>, <<"M","o","r","t","o","n">>,
    <<"D","i","a","m","o","n","d"," ","C","r","y","s","t","a","l">>
  >>

\* Size descriptors (recipe_parser.py:48-52)
SIZE_WORDS ==
  {
    <<"s","m","a","l","l">>, <<"m","e","d","i","u","m">>, <<"l","a","r","g","e">>,
    <<"e","x","t","r","a"," ","l","a","r","g","e">>,
    <<"e","x","t","r","a","-","l","a","r","g","e">>, <<"x","l">>, <<"j","u","m","b","o">>,
    <<"b","a","b","y">>, <<"m","i","n","i">>, <<"g","i","a","n","t">>, <<"b","i","g">>,
    <<"l","i","t","t","l","e">>, <<"t","i","n","y">>, <<"p","e","t","i","t","e">>,
    <<"y","o","u","n","g">>, <<"m","a","t","u","r","e">>, <<"t","h","i","c","k">>,
    <<"t","h","i","n">>, <<"w","i","d","e">>, <<"n","a","r","r","o","w">>
  }

\* Color descriptors (recipe_parser.py:55-57)
COLOR_WORDS ==
  {
    <<"g","r","e","e","n">>, <<"r","e","d">>, <<"y","e","l","l","o","w">>,
    <<"o","r","a","n","g","e">>, <<"p","u","r","p","l","e">>, <<"w","h","i","t","e">>,
    <<"b","l","a","c","k">>
  }

\* Product descriptors kept in first position (recipe_parser.py:61-64)
PRODUCT_DESCRIPTORS ==
  {
    <<"g","r","o","u","n","d">>, <<"c","r","u","s","h","e","d">>,
    <<"m","a","r","i","n","a","t","e","d">>, <<"r","o","a","s","t","e","d">>,
    <<"s","m","o","k","e","d">>, <<"p","i","c","k","l","e","d">>, <<"c","u","r","e","d">>,
    <<"a","g","e","d">>, <<"f","e","r","m","e","n","t","e","d">>
  }

\* Quality descriptors (recipe_parser.py:67-83)
QUALITY_WORDS ==
  {
    <<"f","r","e","s","h">>, <<"o","r","g","a","n","i","c">>,
    <<"f","r","e","e","-","r","a","n","g","e">>, <<"f","r","e","e"," ","r","a","n","g","e">>,
    <<"g","r","a","s","s","-","f","e","d">>, <<"g","r","a","s","s"," ","f","e","d">>,
    <<"w","i","l","d","-","c","a","u","g","h","t">>,
    <<"w","i","l","d"," ","c","a","u","g","h","t">>, <<"c","a","g","e","-","f","r","e","e">>,
    <<"c","a","g","e"," ","f","r","e","e">>,
    <<"e","x","t","r","a"," ","v","i","r","g","i","n">>,
    <<"e","x","t","r","a","-","v","i","r","g","i","n">>, <<"v","i","r","g","i","n">>,
    <<"e","x","t","r","a">>, <<"p","u","r","e">>, <<"n","a","t","u","r","a","l">>,
    <<"p","r","e","m","i","u","m">>, <<"s","e","l","e","c","t">>, <<"c","h","o","i","c","e">>,
    <<"p","r","i","m","e">>, <<"q","u","a","l","i","t","y">>, <<"g","o","o","d">>,
    <<"b","e","s","t">>, <<"f","a","v","o","r","i","t","e">>,
    <<"f","a","v","o","u","r","i","t","e">>, <<"h","o","m","e","m","a","d","e">>,
    <<"s","t","o","r","e","-","b","o","u","g","h","t">>,
    <<"h","i","g","h","-","q","u","a","l","i","t","y">>,
    <<"h","i","g","h"," ","q","u","a","l","i","t","y">>, <<"a","r","t","i","s","a","n">>,
    <<"a","r","t","i","s","a","n","a","l">>, <<"c","e","r","t","i","f","i","e","d">>,
    <<"a","u","t","h","e","n","t","i","c">>, <<"t","r","a","d","i","t","i","o","n","a","l">>,
    <<"c","l","a","s","s","i","c">>, <<"o","l","d","-","f","a","s","h","i","o","n","e","d">>,
    <<"f","u","l","l">>, <<"f","a","t">>, <<"f","u","l","l"," ","f","a","t">>,
    <<"w","h","o","l","e">>, <<"s","k","i","m">>, <<"l","o","w","-","f","a","t">>,
    <<"l","o","w"," ","f","a","t">>, <<"r","e","d","u","c","e","d">>,
    <<"r","e","d","u","c","e","d","-","f","a","t">>, <<"n","o","n","f","a","t">>,
    <<"n","o","n","-","f","a","t">>, <<"s","w","e","e","t">>, <<"r","i","p","e">>,
    <<"u","n","r","i","p","e">>, <<"m","a","t","u","r","e">>, <<"y","o","u","n","g">>,
    <<"s","a","l","t","e","d">>, <<"u","n","s","a","l","t","e","d">>,
    <<"l","i","g","h","t","l","y"," ","s","a","l","t","e","d">>, <<"v","e","r","y">>,
    <<"c","o","l","d">>, <<"h","o","t">>, <<"w","a","r","m">>, <<"c","o","o","l">>,
    <<"d","r","y">>, <<"w","e","t">>, <<"m","o","i","s","t">>, <<"c","a","n","n","e","d">>,
    <<"f","i","n","e">>, <<"c","o","a","r","s","e">>, <<"c","o","a","r","s","e","l","y">>,
    <<"p","r","e","f","e","r","a","b","l","y">>, <<"f","r","e","s","h","l","y">>,
    <<"f","r","e","s","h","l","y","-","g","r","o","u","n","d">>
  }

\* Measurement units, all categories flattened in dict order (recipe_parser.py:98-130)
UNITS ==
  <<
    <<"c","u","p">>, <<"c","u","p","s">>, <<"c">>, <<"c",".">>,
    <<"t","a","b","l","e","s","p","o","o","n">>,
    <<"t","a","b","l","e","s","p","o","o","n","s">>, <<"t","b","s","p">>, <<"t","b","s">>,
    <<"T">>, <<"T","b","s","p">>, <<"T","b","s">>, <<"t","e","a","s","p","o","o","n">>,
    <<"t","e","a","s","p","o","o","n","s">>, <<"t","s","p">>, <<"t">>, <<"T","s","p">>,
    <<"f","l","u","i","d"," ","o","u","n","c","e">>,
    <<"f","l","u","i","d"," ","o","u","n","c","e","s">>, <<"f","l"," ","o","z">>,
    <<"f","l","."," ","o","z",".">>, <<"f","l"," ","o","z",".">>, <<"f","l",".","o","z",".">>,
    <<"p","i","n","t">>, <<"p","i","n","t","s">>, <<"p","t">>, <<"q","u","a","r","t">>,
    <<"q","u","a","r","t","s">>, <<"q","t">>, <<"g","a","l","l","o","n">>,
    <<"g","a","l","l","o","n","s">>, <<"g","a","l">>,
    <<"m","i","l","l","i","l","i","t","e","r">>,
    <<"m","i","l","l","i","l","i","t","e","r","s">>,
    <<"m","i","l","l","i","l","i","t","r","e">>,
    <<"m","i","l","l","i","l","i","t","r","e","s">>, <<"m","l">>, <<"m","L">>,
    <<"l","i","t","e","r">>, <<"l","i","t","e","r","s">>, <<"l","i","t","r","e">>,
    <<"l","i","t","r","e","s">>, <<"l">>, <<"L">>, <<"o","u","n","c","e">>,
    <<"o","u","n","c","e","s">>, <<"o","z">>, <<"o","z",".">>, <<"p","o","u","n","d">>,
    <<"p","o","u","n","d","s">>, <<"l","b">>, <<"l","b","s">>, <<"l","b",".">>,
    <<"l","b","s",".">>, <<"g","r","a","m">>, <<"g","r","a","m","s">>, <<"g">>, <<"g",".">>,
    <<"k","i","l","o","g","r","a","m">>, <<"k","i","l","o","g","r","a","m","s">>, <<"k","g">>,
    <<"k","i","l","o">>, <<"k","i","l","o","s">>, <<"c","l","o","v","e">>,
    <<"c","l","o","v","e","s">>, <<"s","p","r","i","g">>, <<"s","p","r","i","g","s">>,
    <<"b","u","n","c","h">>, <<"b","u","n","c","h","e","s">>, <<"h","e","a","d">>,
    <<"h","e","a","d","s">>, <<"s","t","a","l","k">>, <<"s","t","a","l","k","s">>,
    <<"r","i","b">>, <<"r","i","b","s">>, <<"s","l","i","c","e">>, <<"s","l","i","c","e","s">>,
    <<"p","i","e","c","e">>, <<"p","i","e","c","e","s">>, <<"l","e","a","f">>,
    <<"l","e","a","v","e","s">>, <<"s","t","e","m">>, <<"s","t","e","m","s">>, <<"c","a","n">>,
    <<"c","a","n","s">>, <<"j","a","r">>, <<"j","a","r","s">>, <<"b","o","x">>,
    <<"b","o","x","e","s">>, <<"p","a","c","k","a","g","e">>,
    <<"p","a","c","k","a","g","e","s">>, <<"p","k","g">>, <<"b","a","g">>, <<"b","a","g","s">>,
    <<"c","o","n","t","a","i","n","e","r">>, <<"c","o","n","t","a","i","n","e","r","s">>,
    <<"c","a","r","t","o","n">>, <<"c","a","r","t","o","n","s">>, <<"b","o","t","t","l","e">>,
    <<"b","o","t","t","l","e","s">>, <<"p","o","u","c","h">>, <<"p","o","u","c","h","e","s">>,
    <<"t","i","n">>, <<"t","i","n","s">>
  >>

\* Nouns before which a color is dropped (recipe_parser.py:400)
REMOVE_COLOR_FOR ==
  {
    <<"p","e","p","p","e","r">>, <<"p","e","p","p","e","r","s">>, <<"b","e","l","l">>,
    <<"c","a","b","b","a","g","e">>, <<"s","q","u","a","s","h">>
  }

\* Generic headers to skip (recipe_parser.py:461-465)
GENERIC_HEADERS ==
  {
    <<"i","n","g","r","e","d","i","e","n","t","s">>,
    <<"y","o","u"," ","w","i","l","l"," ","n","e","e","d">>,
    <<"y","o","u","'","l","l"," ","n","e","e","d">>,
    <<"w","h","a","t"," ","y","o","u"," ","n","e","e","d">>,
    <<"s","h","o","p","p","i","n","g"," ","l","i","s","t">>,
    <<"s","u","p","p","l","i","e","s">>, <<"g","r","o","c","e","r","y"," ","l","i","s","t">>,
    <<"d","i","r","e","c","t","i","o","n","s">>,
    <<"i","n","s","t","r","u","c","t","i","o","n","s">>, <<"s","t","e","p","s">>,
    <<"m","e","t","h","o","d">>, <<"p","r","e","p","a","r","a","t","i","o","n">>
  }

\* Common single-word ingredients (recipe_parser.py:479-485)
COMMON_SINGLE ==
  {
    <<"s","a","l","t">>, <<"p","e","p","p","e","r">>, <<"s","u","g","a","r">>,
    <<"f","l","o","u","r">>, <<"b","u","t","t","e","r">>, <<"m","i","l","k">>,
    <<"w","a","t","e","r">>, <<"e","g","g","s">>, <<"e","g","g">>, <<"g","a","r","l","i","c">>,
    <<"o","n","i","o","n">>, <<"t","o","m","a","t","o">>, <<"c","h","e","e","s","e">>,
    <<"r","i","c","e">>, <<"o","i","l">>, <<"v","i","n","e","g","a","r">>,
    <<"l","e","m","o","n">>, <<"l","i","m","e">>, <<"p","a","r","s","l","e","y">>,
    <<"b","a","s","i","l">>, <<"o","r","e","g","a","n","o">>, <<"c","h","i","c","k","e","n">>,
    <<"b","e","e","f">>, <<"p","o","r","k">>, <<"f","i","s","h">>, <<"s","a","l","m","o","n">>,
    <<"s","h","r","i","m","p">>, <<"b","a","c","o","n">>, <<"p","a","s","t","a">>,
    <<"b","r","e","a","d">>, <<"p","o","t","a","t","o">>, <<"c","a","r","r","o","t">>,
    <<"c","e","l","e","r","y">>, <<"s","p","i","n","a","c","h">>
  }

(***************************************************************************)
(* strip_bullets and BULLET_PATTERNS.                                      *)
(***************************************************************************)
\* Checkboxes: the glyphs of the first bullet pattern
CHECKBOXES ==
  {"u25A2","u25A1","u25A0","u2610","u2611","u2612",
   "u2713","u2714","u2715","u2716","u2717","u2718"}

\* Bullets: the glyphs of the second bullet pattern
BULLETS == {"u2022","u25E6","u25AA","u25AB","u29BF","u29BE","u25CB","u25CF"}

\* Asterisk, plus, dash, en dash, em dash
DASHES == {"*", "+", "-", "u2013", "u2014"}

\* the closing character of a list number: "1.", "1)", "1-"
NUMBER_CLOSERS == {".", ")", "-"}

\* re.sub(r'^[\s]*[G][\s]*', '', s): one glyph of G, with the whitespace around it
sub_glyph(s, G) ==
  LET p == SpanEnd(s, 1, WS)
  IN  IF p <= Len(s) /\ s[p] \in G THEN From(s, SpanEnd(s, p + 1, WS)) ELSE s

\* re.sub(r'^[\s]*\d+[\.\)\-]\s*', '', s)
sub_number(s) ==
  LET p == SpanEnd(s, 1, WS)
      q == SpanEnd(s, p, Digits)
  IN  IF q > p /\ q <= Len(s) /\ s[q] \in NUMBER_CLOSERS
      THEN From(s, SpanEnd(s, q + 1, WS)) ELSE s

\* BULLET_PATTERNS: the four patterns in list order; a pattern strips one glyph of its
\* set, or one list number
BULLET_PATTERNS ==
  << [glyphs |-> CHECKBOXES, number |-> FALSE],
     [glyphs |-> BULLETS,    number |-> FALSE],
     [glyphs |-> DASHES,     number |-> FALSE],
     [glyphs |-> {},         number |-> TRUE] >>

\* re.sub(pattern, '', s) for one bullet pattern
sub_bullet(pattern, s) ==
  IF pattern.number THEN sub_number(s) ELSE sub_glyph(s, pattern.glyphs)

\* for pattern in BULLET_PATTERNS: cleaned = re.sub(pattern, '', cleaned)
RECURSIVE apply_patterns(_, _, _)
apply_patterns(patterns, k, s) ==
  IF k > Len(patterns) THEN s
  ELSE apply_patterns(patterns, k + 1, sub_bullet(patterns[k], s))

strip_bullets(s) == strip(apply_patterns(BULLET_PATTERNS, 1, s))

(***************************************************************************)
(* The measurement patterns of parse_ingredient_line.  Each operator gives *)
(* the position after the match that re's backtracking search finds first, *)
(* or 0 when there is none.                                                *)
(***************************************************************************)
\* [\d\s\/\.\-\+~ and the vulgar fractions]
AmountChars == Digits \cup WS \cup {"/", ".", "-", "+", "~"} \cup Fractions

\* [\d\s\/\.\-] of the trailing measurement
TrailingAmountChars == Digits \cup WS \cup {"/", ".", "-"}

\* the positions after a unit of the alternation that starts at p, under re.IGNORECASE
unit_ends(s, p, units) ==
  {p + Len(units[i]) : i \in {j \in 1..Len(units) : MatchAtI(s, p, units[j])}}

UnitEnds(s, p) == unit_ends(s, p, UNITS)

\* the alternative that re's backtracking takes: of the attempts <<rank, end>> the end of
\* the highest-ranked one that matches (end # 0), 0 when none matches
Preferred(tries) ==
  LET ok == {t \in tries : t[2] # 0}
  IN  IF ok = {} THEN 0 ELSE (CHOOSE t \in ok : \A u \in ok : u[1] <= t[1])[2]

\* \.?\s*  at u
dot_then_ws(s, u) == SpanEnd(s, IF u <= Len(s) /\ s[u] = "." THEN u + 1 ELSE u, WS)

\* ({units})?\.?\s*  at the end of the range clause: longest unit first, all optional
range_tail(s, c) == dot_then_ws(s, Max(UnitEnds(s, c) \cup {c}))

\* (to\s+[amount]+\s*({units})?\.?\s*)?  at q
range_clause(s, q) ==
  LET w == SpanEnd(s, q + 2, WS)
      c == IF ~MatchAtI(s, q, <<"t","o">>) \/ w = q + 2 THEN 0
           ELSE IF w <= Len(s) /\ s[w] \in AmountChars THEN SpanEnd(s, w, AmountChars)
           ELSE IF w - (q + 2) >= 2 THEN w
           ELSE 0
  IN  IF c = 0 THEN q ELSE range_tail(s, c)

\* \.?\s+ and the optional range clause, at p
after_unit(s, p) ==
  LET d == IF p <= Len(s) /\ s[p] = "." /\ SpanEnd(s, p + 1, WS) > p + 1 THEN p + 1 ELSE p
      w == SpanEnd(s, d, WS)
  IN  IF w = d THEN 0 ELSE range_clause(s, w)

\* ({units})? and what follows, at p: the longest unit after which the rest matches
unit_opt(s, p) == Preferred({<<e, after_unit(s, e)>> : e \in UnitEnds(s, p) \cup {p}})

\* \s* and what follows, at p
ws_then_unit(s, p) == Preferred({<<a, unit_opt(s, a)>> : a \in p..SpanEnd(s, p, WS)})

\* the position after  \([^)]*\)  at p, when there is one
paren_end(s, p) ==
  LET close == {q \in (p + 1)..Len(s) : s[q] = ")"}
  IN  IF p <= Len(s) /\ s[p] = "(" /\ close # {} THEN {Min(close) + 1} ELSE {}

\* (\([^)]*\))? and what follows, at p
paren_opt(s, p) == Preferred({<<a, ws_then_unit(s, a)>> : a \in {p} \cup paren_end(s, p)})

\* \s* and what follows, at p
ws_then_paren(s, p) == Preferred({<<a, paren_opt(s, a)>> : a \in p..SpanEnd(s, p, WS)})

\* re.match(measurement_pattern, s, re.IGNORECASE).end(), 0 for no match
measurement_match(s) ==
  Preferred({<<a, ws_then_paren(s, a)>> : a \in 2..SpanEnd(s, 1, AmountChars)})

\* re.sub(trailing_measurement, '', s, flags=re.IGNORECASE):
\* \s+[\d\s\/\.\-]+\s*({units})\s*$  matched leftmost, removed
trailing_matches_at(s, i) ==
  /\ s[i] \in WS
  /\ \E e \in (i + 2)..Len(s) :
       /\ \A k \in i..(e - 1) : s[k] \in TrailingAmountChars
       /\ \E u \in UnitEnds(s, e) : SpanEnd(s, u, WS) > Len(s)

sub_trailing_measurement(s) ==
  LET hit == {i \in 1..Len(s) : trailing_matches_at(s, i)}
  IN  IF hit = {} THEN s ELSE Upto(s, Min(hit) - 1)

\* re.match(r'^[a-zA-Z\s]+\s+of\s+\d+\s+', s, re.IGNORECASE).end(), 0 for no match
of_match(s) ==
  LET d == SpanEnd(s, 1, Letters \cup WS)
      e == SpanEnd(s, d, Digits)
      w == SpanEnd(s, e, WS)
      b == SpanStart(s, d - 1, WS)
  IN  IF /\ d <= Len(s) /\ e > d /\ w > e
         /\ b < d /\ b >= 5
         /\ MatchAtI(s, b - 2, <<"o","f">>)
         /\ s[b - 3] \in WS
      THEN w ELSE 0

(***************************************************************************)
(* clean_ingredient_name.                                                  *)
(***************************************************************************)
\* re.sub(r'\([^)]*\)', '', s) and re.sub(r'\[[^\]]*\]', '', s): every span from an
\* opening character to the next closing one is removed
RECURSIVE remove_spans(_, _, _)
remove_spans(s, open, close) ==
  LET opens == {p \in 1..Len(s) : s[p] = open}
      closes == IF opens = {} THEN {} ELSE {q \in (Min(opens) + 1)..Len(s) : s[q] = close}
  IN  IF closes = {} THEN s
      ELSE Upto(s, Min(opens) - 1) \o remove_spans(From(s, Min(closes) + 1), open, close)

\* the dashes of separator_pattern: hyphen, en dash, em dash
SEPARATOR_DASHES == {"-", "u2013", "u2014"}

\* separator_pattern r'[,]|\s+[\-–—]\s+' at position i: the position after the match, 0 for none
separator_at(s, i) ==
  IF s[i] = "," THEN i + 1
  ELSE LET d == SpanEnd(s, i, WS)
       IN  IF d > i /\ d < Len(s) /\ s[d] \in SEPARATOR_DASHES /\ s[d + 1] \in WS
           THEN SpanEnd(s, d + 1, WS) ELSE 0

\* re.split(separator_pattern, s)
RECURSIVE split_separators(_)
split_separators(s) ==
  With(Matches(s, LAMBDA i : separator_at(s, i)), LAMBDA hits :
    IF hits = {} THEN <<s>>
    ELSE <<Upto(s, First(hits)[1] - 1)>> \o split_separators(From(s, First(hits)[2])))

\* the test of a clause with the prep words alone
has_non_prep_word_prep_only(part) ==
  \E k \in 1..Len(split(part)) : lower(split(part)[k]) \notin PREP_WORDS

\* any(w.lower() not in PREP_WORDS and w.lower() not in QUALITY_WORDS for w in part.split())
has_non_prep_word(part) ==
  \E k \in 1..Len(split(part)) :
     lower(split(part)[k]) \notin PREP_WORDS /\ lower(split(part)[k]) \notin QUALITY_WORDS

\* kept_parts: the stripped parts that have a non-prep word
RECURSIVE kept_parts(_)
kept_parts(parts) ==
  IF parts = << >> THEN << >>
  ELSE (IF has_non_prep_word(strip(Head(parts))) THEN <<strip(Head(parts))>> ELSE << >>)
       \o kept_parts(Tail(parts))

\* the comma/dash clause filter
filter_clauses(s) ==
  With(split_separators(s), LAMBDA parts :
    IF Len(parts) > 1 THEN join(kept_parts(parts)) ELSE s)

\* the characters after "each" in r'^each[\s:]+'
EACH_FOLLOWERS == WS \cup {":"}

\* re.sub(r'^each[\s:]+', '', s, flags=re.IGNORECASE)
sub_each(s) ==
  IF MatchAtI(s, 1, <<"e","a","c","h">>) /\ SpanEnd(s, 5, EACH_FOLLOWERS) > 5
  THEN From(s, SpanEnd(s, 5, EACH_FOLLOWERS)) ELSE s

\* \s+word1\s+word2... under re.IGNORECASE from position p, word k onward:
\* the position after the last word, 0 for no match
RECURSIVE words_from(_, _, _, _)
words_from(s, p, words, k) ==
  IF k > Len(words) THEN p
  ELSE LET w == SpanEnd(s, p, WS)
       IN  IF w > p /\ MatchAtI(s, w, words[k])
           THEN words_from(s, w + Len(words[k]), words, k + 1) ELSE 0

\* the phrase at position i, followed by \s+ when trailing_ws: the position after the match, 0 for none
phrase_at(s, i, words, trailing_ws) ==
  With(words_from(s, i, words, 1), LAMBDA e :
    IF e = 0 THEN 0
    ELSE IF ~trailing_ws THEN e
    ELSE IF SpanEnd(s, e, WS) > e THEN SpanEnd(s, e, WS) ELSE 0)

\* re.split(r'\s+word\s+', s, flags=re.IGNORECASE)
RECURSIVE split_phrase(_, _)
split_phrase(s, words) ==
  With(Matches(s, LAMBDA i : phrase_at(s, i, words, TRUE)), LAMBDA hits :
    IF hits = {} THEN <<s>>
    ELSE <<Upto(s, First(hits)[1] - 1)>> \o split_phrase(From(s, First(hits)[2]), words))

\* `.*$` from position e: no line break but a last one
rest_of_line(s, e) == \A q \in e..Len(s) : s[q] = "\n" => q = Len(s)

\* what a removed `.*$` tail leaves behind: a last line break
left_by_tail(s, e) == IF e <= Len(s) /\ s[Len(s)] = "\n" THEN <<"\n">> ELSE << >>

\* re.sub(pattern + r'.*$', '', s): the leftmost match that `.*$` can follow is removed
cut_from(s, hits) ==
  With({h \in hits : rest_of_line(s, h[2])}, LAMBDA tails :
    IF tails = {} THEN s
    ELSE Upto(s, First(tails)[1] - 1) \o left_by_tail(s, First(tails)[2]))

\* re.sub(r'\s+words\s+.*$', '', s, flags=re.IGNORECASE) (the last \s+ when trailing_ws)
cut_tail(s, words, trailing_ws) ==
  cut_from(s, Matches(s, LAMBDA i : phrase_at(s, i, words, trailing_ws)))

\* [\.]\s*See\s+Note at position i: the position after the match, 0 for none
dot_see_note_at(s, i) ==
  LET w == SpanEnd(s, i + 1, WS)
  IN  IF s[i] = "." /\ MatchAtI(s, w, <<"s","e","e">>) /\ SpanEnd(s, w + 3, WS) > w + 3
         /\ MatchAtI(s, SpanEnd(s, w + 3, WS), <<"n","o","t","e">>)
      THEN SpanEnd(s, w + 3, WS) + 4 ELSE 0

\* re.sub(r'[\.]\s*See\s+Note.*$', '', s, flags=re.IGNORECASE)
cut_dot_see_note(s) == cut_from(s, Matches(s, LAMBDA i : dot_see_note_at(s, i)))

\* handle "such as": everything from the phrase on is dropped
cut_such_as(s) ==
  IF Contains(lower(s), <<" ","s","u","c","h"," ","a","s"," ">>) THEN split_phrase(s, <<<<"s","u","c","h">>, <<"a","s">>>>)[1] ELSE s

\* w.lower().strip('.,;:-') of the "or" step, w.lower().strip('.,;:') of the word filters
OR_PUNCTUATION == {".", ",", ";", ":", "-"}

WORD_PUNCTUATION == {".", ",", ";", ":"}

\* sum(1 for w in text.split() if w.lower().strip('.,;:-') in table)
count_words_in(s, table) ==
  Cardinality({k \in 1..Len(split(s)) :
                 strip_chars(lower(split(s)[k]), OR_PUNCTUATION) \in table})

\* count_descriptor_words
count_descriptor_words(s) ==
  count_words_in(s, SIZE_WORDS \cup COLOR_WORDS \cup QUALITY_WORDS)

\* first_junk, last_junk: descriptor words plus prep words
junk(s) == count_descriptor_words(s) + count_words_in(s, PREP_WORDS)

\* parts[0] and parts[-1]
first_part(parts) == parts[1]

last_part(parts) == parts[Len(parts)]

\* the part with fewer descriptor/prep words; tied, the first unless the last has more words
or_choice(first, last, first_junk, last_junk) ==
  IF last_junk < first_junk THEN last
  ELSE IF first_junk < last_junk THEN first
  ELSE IF Len(split(first)) >= Len(split(last)) THEN first
  ELSE last

or_parts(first, last) == or_choice(first, last, junk(first), junk(last))

\* handle "or" alternatives
resolve_or(s) ==
  IF ~Contains(lower(s), <<" ","o","r"," ">>) THEN s
  ELSE With(split_phrase(s, <<<<"o","r">>>>), LAMBDA parts :
         or_parts(first_part(parts), last_part(parts)))

\* the longest first component that "and" still splits off
AND_MAX_WORDS == 3

\* resolve_and with the bound at two words
resolve_and_two_words(s) ==
  IF ~Contains(lower(s), <<" ","a","n","d"," ">>) THEN s
  ELSE With(first_part(split_phrase(s, <<<<"a","n","d">>>>)), LAMBDA first :
         IF Len(split(first)) <= AND_MAX_WORDS - 1 THEN first ELSE s)

\* handle "and" for compound ingredients
resolve_and(s) ==
  IF ~Contains(lower(s), <<" ","a","n","d"," ">>) THEN s
  ELSE With(first_part(split_phrase(s, <<<<"a","n","d">>>>)), LAMBDA first :
         IF Len(split(first)) <= AND_MAX_WORDS THEN first ELSE s)

\* the "plus more for" type phrases, in the order of the nine re.sub calls
cut_tails(s) ==
  With(cut_tail(s, <<<<"p","l","u","s">>>>, TRUE),          LAMBDA c1 :
  With(cut_tail(c1, <<<<"f","o","r">>>>, TRUE),          LAMBDA c2 :
  With(cut_tail(c2, <<<<"t","o">>, <<"t","a","s","t","e">>>>, FALSE),  LAMBDA c3 :
  With(cut_tail(c3, <<<<"a","s">>, <<"n","e","e","d","e","d">>>>, FALSE), LAMBDA c4 :
  With(cut_tail(c4, <<<<"b","y">>, <<"h","a","n","d">>>>, FALSE),   LAMBDA c5 :
  With(cut_tail(c5, <<<<"w","i","t","h">>>>, TRUE),         LAMBDA c6 :
  With(cut_tail(c6, <<<<"o","m","i","t">>>>, TRUE),         LAMBDA c7 :
  With(cut_dot_see_note(c7),                    LAMBDA c8 :
  cut_tail(c8, <<<<"s","e","e">>, <<"n","o","t","e">>>>, FALSE)))))))))

\* \bbrand\b under re.IGNORECASE at position i: the position after the match, 0 for none
brand_at(s, i, brand) ==
  IF /\ MatchAtI(s, i, brand)
     /\ (i = 1 \/ s[i - 1] \notin WordChars)
     /\ (i + Len(brand) > Len(s) \/ s[i + Len(brand)] \notin WordChars)
  THEN i + Len(brand) ELSE 0

\* re.sub(r'\b' + re.escape(brand) + r'\b', '', s, flags=re.IGNORECASE)
RECURSIVE remove_brand(_, _)
remove_brand(s, brand) ==
  With(Matches(s, LAMBDA i : brand_at(s, i, brand)), LAMBDA hits :
    IF hits = {} THEN s
    ELSE Upto(s, First(hits)[1] - 1) \o remove_brand(From(s, First(hits)[2]), brand))

\* for brand in brands: cleaned = re.sub(...), the brands taken in the order given
RECURSIVE remove_brands(_, _, _)
remove_brands(s, brands, k) ==
  IF k > Len(brands) THEN s
  ELSE With(remove_brand(s, brands[k]), LAMBDA cleaned : remove_brands(cleaned, brands, k + 1))

\* w.lower().strip('.,;:')
word_key(w) == strip_chars(lower(w), WORD_PUNCTUATION)

\* the words after the first that the prep filter keeps
RECURSIVE filter_rest(_, _)
filter_rest(words, k) ==
  IF k > Len(words) THEN << >>
  ELSE (IF word_key(words[k]) \notin PREP_WORDS /\ Len(word_key(words[k])) > 0
        THEN <<words[k]>> ELSE << >>) \o filter_rest(words, k + 1)

\* the first word filtered with the product descriptors counted among the prep words
filter_first_no_descriptors(word) ==
  IF word_key(word) \notin PREP_WORDS \cup PRODUCT_DESCRIPTORS THEN <<word>> ELSE << >>

\* the first word, kept when it is a product descriptor or no prep word
filter_first(word) ==
  IF word_key(word) \in PRODUCT_DESCRIPTORS \/ word_key(word) \notin PREP_WORDS
  THEN <<word>> ELSE << >>

\* remove prep words, but keep product descriptors in first position
filter_prep_words(s) ==
  With(split(s), LAMBDA words :
    IF Len(words) > 1 THEN join(filter_first(words[1]) \o filter_rest(words, 2))
    ELSE join(words))

\* words[i+1].lower().strip('.,;:') if i+1 < len(words) else ''
next_word(words, i) == IF i + 1 <= Len(words) THEN word_key(words[i + 1]) ELSE << >>

\* the filter without the look at the next word: a color word is dropped like a size word
keeps_word_no_color(words, i) ==
  /\ word_key(words[i]) \notin COLOR_WORDS
  /\ word_key(words[i]) \notin SIZE_WORDS
  /\ word_key(words[i]) \notin QUALITY_WORDS

\* whether the size/color/quality filter keeps words[i]
keeps_word(words, i) ==
  IF word_key(words[i]) \in COLOR_WORDS
  THEN next_word(words, i) \notin REMOVE_COLOR_FOR
  ELSE word_key(words[i]) \notin SIZE_WORDS /\ word_key(words[i]) \notin QUALITY_WORDS

RECURSIVE filter_descriptors_from(_, _)
filter_descriptors_from(words, i) ==
  IF i > Len(words) THEN << >>
  ELSE (IF keeps_word(words, i) THEN <<words[i]>> ELSE << >>)
       \o filter_descriptors_from(words, i + 1)

\* remove size/color/quality descriptors by word filtering
filter_descriptors(s) == join(filter_descriptors_from(split(s), 1))

\* normalize whitespace, remove leading/trailing punctuation
normalize(s) == strip(strip_chars(join(split(s)), OR_PUNCTUATION))

\* clean_ingredient_name with the brands removed in the order given
clean_with_brands(s, brands) ==
  With(remove_spans(s, "(", ")"),   LAMBDA c1 :
  With(remove_spans(c1, "[", "]"),     LAMBDA c2 :
  With(filter_clauses(c2),             LAMBDA c3 :
  With(sub_each(c3),                   LAMBDA c4 :
  With(cut_such_as(c4),                LAMBDA c5 :
  With(resolve_or(c5),                 LAMBDA c6 :
  With(resolve_and(c6),                LAMBDA c7 :
  With(cut_tails(c7),                  LAMBDA c8 :
  With(remove_brands(c8, brands, 1),   LAMBDA c9 :
  With(filter_prep_words(c9),          LAMBDA c10 :
  With(filter_descriptors(c10),        LAMBDA c11 :
  normalize(c11))))))))))))

clean_ingredient_name(s) == clean_with_brands(s, BRANDS)

(***************************************************************************)
(* Section headers, generic headers, confidence.                           *)
(***************************************************************************)
\* a header is at most this long
HEADER_MAX_LEN == 50

\* the units of the has_measurement pattern, (cups?|tbsp?|tsp?|oz|lbs?|g|kg): the optional
\* last letter of an alternative does not change where the pattern is found
HEADER_UNITS == {<<"c","u","p">>, <<"t","b","s">>, <<"t","s">>, <<"o","z">>, <<"l","b">>, <<"g">>, <<"k","g">>}

header_unit_at(s, p) == \E u \in HEADER_UNITS : MatchAtI(s, p, u)

\* \s* and a unit, from position p
ws_unit_from(s, p) == \E q \in p..SpanEnd(s, p, WS) : header_unit_at(s, q)

\* [\s\-]*(\/\d+)?\s* and a unit, from position p
after_number(s, p) ==
  \E b \in p..SpanEnd(s, p, WS \cup {"-"}) :
     \/ ws_unit_from(s, b)
     \/ /\ b <= Len(s) /\ s[b] = "/"
        /\ SpanEnd(s, b + 1, Digits) > b + 1
        /\ ws_unit_from(s, SpanEnd(s, b + 1, Digits))

\* re.search(r'\d+[\s\-]*(\/\d+)?\s*(cups?|tbsp?|tsp?|oz|lbs?|g|kg)', line, re.IGNORECASE)
has_measurement(line) ==
  \E i \in 1..Len(line) : line[i] \in Digits /\ after_number(line, i + 1)

\* is_section_header without the test of its second statement: a line of any length that
\* ends with a colon and holds no measurement is a header
is_section_header_any_length(line) ==
  IF endswith(line, <<":">>) THEN ~has_measurement(line) ELSE FALSE

is_section_header(line) ==
  IF endswith(line, <<":">>)
  THEN IF Len(line) > HEADER_MAX_LEN THEN FALSE ELSE ~has_measurement(line)
  ELSE FALSE

\* re.sub(r'^for\s+the\s+', '', s, flags=re.IGNORECASE)
sub_for_the(s) ==
  With(IF MatchAtI(s, 1, <<"f","o","r">>) THEN words_from(s, Len(<<"f","o","r">>) + 1, <<<<"t","h","e">>>>, 1) ELSE 0,
       LAMBDA e : IF e # 0 /\ SpanEnd(s, e, WS) > e THEN From(s, SpanEnd(s, e, WS)) ELSE s)

\* re.sub(r'^for\s+', '', s, flags=re.IGNORECASE)
sub_for(s) ==
  LET e == Len(<<"f","o","r">>) + 1
  IN  IF MatchAtI(s, 1, <<"f","o","r">>) /\ SpanEnd(s, e, WS) > e THEN From(s, SpanEnd(s, e, WS)) ELSE s

extract_section_name(line) ==
  title(sub_for(sub_for_the(strip(rstrip_chars(line, {":"})))))

is_generic_header(line) ==
  rstrip_chars(strip(lower(line)), {":"}) \in GENERIC_HEADERS

\* a name shorter than this is no ingredient
MIN_NAME_LEN == 2

\* the common list looked up without .lower(): a name with a capital is not found
assess_confidence_exact_case(name) ==
  LET word_count == Len(split(name))
  IN  IF Len(name) < MIN_NAME_LEN THEN "low"
      ELSE IF name \in COMMON_SINGLE THEN "high"
      ELSE IF 2 <= word_count /\ word_count <= 3 THEN "high"
      ELSE IF word_count >= 4 \/ Len(name) < 3 THEN "low"
      ELSE "medium"

assess_confidence(name) ==
  LET word_count == Len(split(name))
  IN  IF Len(name) < MIN_NAME_LEN THEN "low"
      ELSE IF lower(name) \in COMMON_SINGLE THEN "high"
      ELSE IF 2 <= word_count /\ word_count <= 3 THEN "high"
      ELSE IF word_count >= 4 \/ Len(name) < 3 THEN "low"
      ELSE "medium"

(***************************************************************************)
(* parse_ingredient_line.  An Optional value is a sequence of length 0     *)
(* (None) or 1.                                                            *)
(***************************************************************************)
None == << >>

Some(v) == <<v>>

\* Step 3 without the removal of a trailing measurement
after_measurement_keep_trailing(cleaned, match, of) ==
  IF match # 0 THEN strip(From(cleaned, match))
  ELSE IF of # 0 THEN strip(From(cleaned, of))
  ELSE cleaned

\* Step 3: remove measurements (everything before ingredient); match and of_match are
\* the ends of the two re.match calls, 0 for no match
after_measurement(cleaned, match, of) ==
  IF match # 0 THEN sub_trailing_measurement(strip(From(cleaned, match)))
  ELSE IF of # 0 THEN strip(From(cleaned, of))
  ELSE cleaned

remove_measurements(cleaned) ==
  after_measurement(cleaned, measurement_match(cleaned), of_match(cleaned))

\* the flag detected without .lower(): only the lower-case word counts
detect_optional_exact(cleaned) == Contains(cleaned, <<"o","p","t","i","o","n","a","l">>)

\* Step 2: detect optional flag
detect_optional(cleaned) == Contains(lower(cleaned), <<"o","p","t","i","o","n","a","l">>)

\* the record built without the test that follows Step 4: a name of any length is accepted
ingredient_record_unchecked(line, cleaned, name) ==
  Some([original |-> line,
        name |-> name,
        optional |-> detect_optional(cleaned),
        confidence |-> assess_confidence(name)])

\* after Step 4 the name is checked; Step 5 and the returned record
ingredient_record(line, cleaned, name) ==
  IF Len(name) < MIN_NAME_LEN THEN None
  ELSE Some([original |-> line,
             name |-> name,
             optional |-> detect_optional(cleaned),
             confidence |-> assess_confidence(name)])

\* the line once its bullets are stripped
parse_cleaned(line, cleaned, brands) ==
  IF Len(cleaned) = 0 THEN None
  ELSE ingredient_record(line, cleaned, clean_with_brands(remove_measurements(cleaned), brands))

\* parse_ingredient_line with the brands removed in the order given
parse_line_with_brands(line, brands) == parse_cleaned(line, strip_bullets(line), brands)

parse_ingredient_line(line) == parse_line_with_brands(line, BRANDS)
(***************************************************************************)
(* The inputs.  A text is up to MaxLines lines joined by line breaks; the  *)
(* lines are those of INPUT_LINES, which hold every kind of line the       *)
(* orchestrator tells apart, among them lines of 50 and of 51 characters   *)
(* that end with a colon.                                                  *)
(***************************************************************************)
MaxLines == 3

\* the invocations of parse_recipe_text that may be in progress at once
NumCalls == 2

Calls == 1..NumCalls

INPUT_LINES ==
  { <<>>,
    <<"F","o","r"," ","t","h","e"," ","D","o","u","g","h",":">>,
    <<":">>,
    <<"I","n","g","r","e","d","i","e","n","t","s",":">>,
    <<"y","o","u","'","l","l"," ","n","e","e","d">>,
    <<"2"," ","c","u","p","s"," ","f","l","o","u","r",":">>,
    <<"F","o","r"," ","t","h","e"," ","R","o","a","s","t","e","d"," ","G","a","r","l","i","c"," ","a","n","d"," ","L","e","m","o","n"," ","H","e","r","b"," ","B","u","t","t","e","r"," ","S","o","u","p",":">>,
    <<"S","a","l","t"," ","a","n","d"," ","f","r","e","s","h","l","y"," ","g","r","o","u","n","d"," ","p","e","p","p","e","r",","," ","p","l","u","s"," ","m","o","r","e"," ","t","o"," ","t","a","s","t","e",":">>,
    <<" ","-"," ","2"," ","t","b","s","p"," ","o","l","i","v","e"," ","o","i","l"," ","(","O","p","t","i","o","n","a","l",")"," ">>,
    <<"2"," ","x">>,
    <<"f","r","e","s","h">> }

\* the lines as the loop sees them: line.strip()
LINES == {strip(l) : l \in INPUT_LINES}

\* '\n'.join(ls)
RECURSIVE join_lines(_)
join_lines(ls) ==
  IF Len(ls) = 0 THEN << >>
  ELSE IF Len(ls) = 1 THEN ls[1]
  ELSE ls[1] \o <<"\n">> \o join_lines(Tail(ls))

TEXTS == {join_lines(ls) : ls \in UNION {[1..n -> INPUT_LINES] : n \in 0..MaxLines}}

\* a line with two brands in it
BRAND_LINE == <<"1"," ","t","s","p"," ","M","c","C","o","r","m","i","c","k"," ","S","i","m","p","l","y"," ","O","r","g","a","n","i","c"," ","p","a","p","r","i","k","a">>

\* the texts of the invocations that run at once
CONCURRENT_TEXTS ==
  { join_lines(<< >>),
    join_lines(<<<<"F","o","r"," ","t","h","e"," ","D","o","u","g","h",":">>, <<"2"," ","c","u","p","s"," ","f","l","o","u","r",":">>>>),
    join_lines(<<<<"y","o","u","'","l","l"," ","n","e","e","d">>, <<" ","-"," ","2"," ","t","b","s","p"," ","o","l","i","v","e"," ","o","i","l"," ","(","O","p","t","i","o","n","a","l",")"," ">>>>),
    join_lines(<<<<"2"," ","x">>, <<"2"," ","c","u","p","s"," ","f","l","o","u","r",":">>>>),
    join_lines(<<BRAND_LINE>>) }

\* `for brand in BRANDS` iterates a set: the order is the interpreter's choice, one for the
\* whole process.  The order of the source text and its reverse stand for the orders.
RECURSIVE reversed(_)
reversed(seq) == IF Len(seq) = 0 THEN << >> ELSE Append(reversed(Tail(seq)), Head(seq))

BRAND_ORDERS == {BRANDS, reversed(BRANDS)}

\* "- ", a checkbox, a bullet glyph and a space, "* ", "1. ", "1) "
MARKERS == {<<"-"," ">>, <<"u25A2">>, <<"u2022", " ">>, <<"*"," ">>, <<"1","."," ">>, <<"1",")"," ">>}

\* lines that start with a quantity ("2", "14.5", "3-4", "2-inch") or with a word
BASE_LINES ==
  { <<"2"," ","t","b","s","p"," ","o","l","i","v","e"," ","o","i","l">>,
    <<"1","4",".","5"," ","o","z"," ","d","i","c","e","d"," ","t","o","m","a","t","o","e","s">>,
    <<"3","-","4"," ","c","l","o","v","e","s"," ","g","a","r","l","i","c">>,
    <<"2","-","i","n","c","h"," ","p","i","e","c","e"," ","g","i","n","g","e","r">>,
    <<"2"," ","e","g","g","s">>,
    <<"o","l","i","v","e"," ","o","i","l">>,
    <<"s","a","l","t",","," ","o","p","t","i","o","n","a","l">> }

\* every line that is parsed: the lines of the texts, the base lines, the marked lines
PARSE_INPUTS ==
  LINES \cup {BRAND_LINE} \cup BASE_LINES \cup {m \o b : m \in MARKERS, b \in BASE_LINES}

\* parse_ingredient_line on the lines of the inputs, evaluated once for each line and
\* brand order
PARSED == [o \in BRAND_ORDERS |-> [l \in PARSE_INPUTS |-> parse_line_with_brands(l, o)]]

(***************************************************************************)
(* parse_recipe_text as a state machine: one step for the split, one for   *)
(* each iteration of the loop over the lines, one for the return.  Every   *)
(* invocation c has its own locals; brand_order is shared by the process.  *)
(***************************************************************************)
VARIABLES
  text,             \* the argument
  lines,            \* text.strip().split('\n')
  idx,              \* the position of the loop in lines
  current_section,  \* Optional: None until a header is seen
  ingredients,      \* the records appended so far
  exc,              \* Optional: the exception that ended the call
  pc,               \* "idle", "start", "loop", "done", "raised"
  log,              \* for each line handled: the line, what it was taken for, the section after it
  brand_order,      \* the iteration order of the BRANDS set in this process
  strip_run,        \* strip_bullets applied twice in a row
  bullet_run,       \* parse_ingredient_line on a line and on the line behind a list marker
  step_run,         \* one step of the parser applied to one input
  import_run,       \* one request to import_search: the request, the loop, the response
  shopping_carts,   \* the rows of the table shopping_carts
  cart_id_seq,      \* the last id that the table gave to a row
  db_call,          \* the last call of a cart operation and how it ended
  frequent_items,   \* the rows of the table frequent_items
  purchased,        \* how often update_frequent_items has counted a product of a user at a store
  users,            \* the rows of the table users
  token_cache,      \* _token_cache: the tokens that were verified, with user and expiry
  auth_run,         \* the last request that was authenticated and what it was given
  sessions,         \* the calls that run at the same time, each in its `with get_db()`
  pool_used,        \* the connections of the pool that are checked out
  cart_at_start     \* the rows of shopping_carts before the calls began

\* the state of the API and of the database
cart_vars == <<shopping_carts, cart_id_seq, db_call>>

favorite_vars == <<frequent_items, purchased>>

\* the state of the services besides the batch search and the cart
auth_vars == <<users, token_cache, auth_run>>

tx_vars == <<sessions, pool_used, cart_at_start>>

more_vars == <<favorite_vars, auth_vars, tx_vars>>

service_vars == <<import_run, cart_vars, more_vars>>

\* the state outside parse_recipe_text, strip_bullets and the marker comparison
other_vars == <<step_run, service_vars>>

vars == <<text, lines, idx, current_section, ingredients, exc, pc, log,
          brand_order, strip_run, bullet_run, other_vars>>

\* `if x:` for an Optional string: neither None nor ''
truthy(opt) == opt # None /\ Len(opt[1]) > 0

\* the line the loop is at, trimmed
line_at(ls, i) == strip(ls[i])

\* one frame for every invocation, as if current_section were a module-level name
shared_frame(c) == 1

\* the frame that holds the locals of invocation c: its own
frame(c) == c

\* the record as it is appended: section is an Optional, None when the key is absent
with_section(rec, section) ==
  [original |-> rec.original,
   name |-> rec.name,
   optional |-> rec.optional,
   confidence |-> rec.confidence,
   section |-> IF truthy(section) THEN section ELSE None]

\* the append skipped for a line that was emitted before: a deduplicating variant
store_unique(list, parsed, section) ==
  IF parsed # None /\ \A i \in 1..Len(list) : list[i].original # parsed[1].original
  THEN [exc |-> None, value |-> Append(list, with_section(parsed[1], section))]
  ELSE [exc |-> None, value |-> list]

\* the variant without `if parsed:`: None is subscripted, which raises TypeError
store_unguarded(list, parsed, section) ==
  IF parsed # None
  THEN [exc |-> None, value |-> Append(list, with_section(parsed[1], section))]
  ELSE [exc |-> Some("TypeError"), value |-> list]

\* if parsed: (if current_section: parsed['section'] = current_section); ingredients.append(parsed)
\* No statement of the function raises: exc is None either way.
store(list, parsed, section) ==
  IF parsed # None
  THEN [exc |-> None, value |-> Append(list, with_section(parsed[1], section))]
  ELSE [exc |-> None, value |-> list]

\* parse_recipe_text as a function of its argument: the loop from line i on, run alone
RECURSIVE parse_from(_, _, _, _)
parse_from(ls, i, section, found) ==
  IF i > Len(ls) THEN found
  ELSE IF Len(line_at(ls, i)) = 0 THEN parse_from(ls, i + 1, section, found)
  ELSE IF is_section_header(line_at(ls, i))
       THEN parse_from(ls, i + 1, Some(extract_section_name(line_at(ls, i))), found)
  ELSE IF is_generic_header(line_at(ls, i)) THEN parse_from(ls, i + 1, section, found)
  ELSE parse_from(ls, i + 1, section,
                  store(found, PARSED[BRANDS][line_at(ls, i)], section).value)

parse_recipe_text(t) == parse_from(split_on(strip(t), "\n"), 1, None, << >>)

\* what each text of the concurrent invocations yields when it is parsed alone
RESULT == [t \in CONCURRENT_TEXTS |-> parse_recipe_text(t)]

\* no run of strip_bullets, no run of the marker comparison
NoStripRun == [x |-> << >>, once |-> << >>, twice |-> << >>, step |-> "idle"]

NoBulletRun == [base |-> << >>, marker |-> << >>, plain |-> None, marked |-> None, step |-> "idle"]

NoStepRun == [op |-> "none", x |-> << >>, out |-> None, at |-> "idle"]

NoImportRun == [at |-> "idle"]

\* no favorite, nothing counted
NoFavorites ==
  /\ frequent_items = {}
  /\ purchased = << >>

NoAuthRun == [op |-> "none", n |-> 0]

\* no user, no token, no request
NoAuth ==
  /\ users = {}
  /\ token_cache = {}
  /\ auth_run = NoAuthRun

\* no call in a transaction, no connection checked out
NoSessions ==
  /\ sessions = << >>
  /\ pool_used = 0
  /\ cart_at_start = {}

NoMore == NoFavorites /\ NoAuth /\ NoSessions

NoDbCall == [op |-> "none", n |-> 0]

\* no request, an empty table, no call
NoService ==
  /\ import_run = NoImportRun
  /\ shopping_carts = {}
  /\ cart_id_seq = 0
  /\ db_call = NoDbCall
  /\ NoMore

\* nothing in progress outside the parser
Elsewhere == step_run = NoStepRun /\ NoService

\* the locals before the first statement of an invocation
Fresh ==
  /\ lines = [c \in Calls |-> << >>]
  /\ idx = [c \in Calls |-> 0]
  /\ current_section = [c \in Calls |-> None]
  /\ ingredients = [c \in Calls |-> << >>]
  /\ exc = [c \in Calls |-> None]
  /\ log = [c \in Calls |-> << >>]

\* one invocation, on any of the texts
Init ==
  /\ text \in {[c \in Calls |-> IF c = 1 THEN t ELSE << >>] : t \in TEXTS}
  /\ pc = [c \in Calls |-> IF c = 1 THEN "start" ELSE "idle"]
  /\ Fresh
  /\ brand_order = BRANDS
  /\ strip_run = NoStripRun
  /\ bullet_run = NoBulletRun
  /\ Elsewhere

\* lines = text.strip().split('\n'); ingredients = []; current_section = None
Call(c) ==
  /\ pc[c] = "start"
  /\ lines' = [lines EXCEPT ![c] = split_on(strip(text[c]), "\n")]
  /\ idx' = [idx EXCEPT ![c] = 1]
  /\ current_section' = [current_section EXCEPT ![frame(c)] = None]
  /\ ingredients' = [ingredients EXCEPT ![c] = << >>]
  /\ pc' = [pc EXCEPT ![c] = "loop"]
  /\ UNCHANGED <<text, exc, log, brand_order, strip_run, bullet_run, other_vars>>

InLoop(c) == pc[c] = "loop" /\ idx[c] <= Len(lines[c])

\* if not line: continue
SkipEmpty(c) ==
  /\ InLoop(c)
  /\ Len(line_at(lines[c], idx[c])) = 0
  /\ idx' = [idx EXCEPT ![c] = idx[c] + 1]
  /\ log' = [log EXCEPT ![c] = Append(log[c], [kind |-> "empty",
                                               line |-> line_at(lines[c], idx[c]),
                                               section |-> current_section[frame(c)]])]
  /\ UNCHANGED <<text, lines, current_section, ingredients, exc, pc,
                 brand_order, strip_run, bullet_run, other_vars>>

\* if is_section_header(line): current_section = extract_section_name(line); continue
SectionHeader(c) ==
  /\ InLoop(c)
  /\ Len(line_at(lines[c], idx[c])) # 0
  /\ is_section_header(line_at(lines[c], idx[c]))
  /\ current_section' = [current_section EXCEPT
                           ![frame(c)] = Some(extract_section_name(line_at(lines[c], idx[c])))]
  /\ idx' = [idx EXCEPT ![c] = idx[c] + 1]
  /\ log' = [log EXCEPT ![c] = Append(log[c], [kind |-> "section",
                                               line |-> line_at(lines[c], idx[c]),
                                               section |-> current_section'[frame(c)]])]
  /\ UNCHANGED <<text, lines, ingredients, exc, pc, brand_order, strip_run, bullet_run, other_vars>>

\* if is_generic_header(line): continue
GenericHeader(c) ==
  /\ InLoop(c)
  /\ Len(line_at(lines[c], idx[c])) # 0
  /\ ~is_section_header(line_at(lines[c], idx[c]))
  /\ is_generic_header(line_at(lines[c], idx[c]))
  /\ idx' = [idx EXCEPT ![c] = idx[c] + 1]
  /\ log' = [log EXCEPT ![c] = Append(log[c], [kind |-> "generic",
                                               line |-> line_at(lines[c], idx[c]),
                                               section |-> current_section[frame(c)]])]
  /\ UNCHANGED <<text, lines, current_section, ingredients, exc, pc,
                 brand_order, strip_run, bullet_run, other_vars>>

\* parsed = parse_ingredient_line(line); if parsed: ...; ingredients.append(parsed)
IngredientLine(c) ==
  /\ InLoop(c)
  /\ Len(line_at(lines[c], idx[c])) # 0
  /\ ~is_section_header(line_at(lines[c], idx[c]))
  /\ ~is_generic_header(line_at(lines[c], idx[c]))
  /\ \E stored \in {store(ingredients[c], PARSED[brand_order][line_at(lines[c], idx[c])],
                          current_section[frame(c)])} :
       IF stored.exc # None
       THEN /\ exc' = [exc EXCEPT ![c] = stored.exc]
            /\ pc' = [pc EXCEPT ![c] = "raised"]
            /\ UNCHANGED <<idx, ingredients, log>>
       ELSE /\ ingredients' = [ingredients EXCEPT ![c] = stored.value]
            /\ idx' = [idx EXCEPT ![c] = idx[c] + 1]
            /\ log' = [log EXCEPT ![c] =
                         Append(log[c], [kind |-> IF stored.value = ingredients[c]
                                                  THEN "dropped" ELSE "ingredient",
                                         line |-> line_at(lines[c], idx[c]),
                                         section |-> current_section[frame(c)]])]
            /\ UNCHANGED <<exc, pc>>
  /\ UNCHANGED <<text, lines, current_section, brand_order, strip_run, bullet_run, other_vars>>

\* return ingredients
Return(c) ==
  /\ pc[c] = "loop"
  /\ idx[c] > Len(lines[c])
  /\ pc' = [pc EXCEPT ![c] = "done"]
  /\ UNCHANGED <<text, lines, idx, current_section, ingredients, exc, log,
                 brand_order, strip_run, bullet_run, other_vars>>

Next ==
  \E c \in Calls :
     \/ Call(c)
     \/ SkipEmpty(c)
     \/ SectionHeader(c)
     \/ GenericHeader(c)
     \/ IngredientLine(c)
     \/ Return(c)

Spec == Init /\ [][Next]_vars

(***************************************************************************)
(* NumCalls invocations at once, interleaved statement by statement, in a  *)
(* process with either brand order.                                        *)
(***************************************************************************)
InitConcurrent ==
  /\ text \in [Calls -> CONCURRENT_TEXTS]
  /\ pc = [c \in Calls |-> "start"]
  /\ Fresh
  /\ brand_order \in BRAND_ORDERS
  /\ strip_run = NoStripRun
  /\ bullet_run = NoBulletRun
  /\ Elsewhere

SpecConcurrent == InitConcurrent /\ [][Next]_vars

(***************************************************************************)
(* strip_bullets applied to a string and then to its own result.           *)
(***************************************************************************)
MaxStripLen == 3

\* a dash, a digit, the closers of a list number, whitespace, a letter and a checkbox
STRIP_ALPHABET == {"-", "1", ".", ")", " ", "a", "u25A2"}

STRIP_INPUTS == UNION {[1..n -> STRIP_ALPHABET] : n \in 0..MaxStripLen}

\* no invocation of parse_recipe_text
NoCall ==
  /\ text = [c \in Calls |-> << >>]
  /\ pc = [c \in Calls |-> "idle"]
  /\ Fresh
  /\ brand_order = BRANDS

parser_vars == <<text, lines, idx, current_section, ingredients, exc, pc, log, brand_order>>

InitStrip ==
  /\ strip_run \in {[x |-> s, once |-> << >>, twice |-> << >>, step |-> "start"] :
                      s \in STRIP_INPUTS}
  /\ bullet_run = NoBulletRun
  /\ NoCall
  /\ Elsewhere

\* once = strip_bullets(x)
StripOnce ==
  /\ strip_run.step = "start"
  /\ strip_run' = [strip_run EXCEPT !.once = strip_bullets(strip_run.x), !.step = "once"]
  /\ UNCHANGED <<parser_vars, bullet_run, other_vars>>

\* twice = strip_bullets(once)
StripTwice ==
  /\ strip_run.step = "once"
  /\ strip_run' = [strip_run EXCEPT !.twice = strip_bullets(strip_run.once), !.step = "twice"]
  /\ UNCHANGED <<parser_vars, bullet_run, other_vars>>

NextStrip == StripOnce \/ StripTwice

SpecStrip == InitStrip /\ [][NextStrip]_vars

(***************************************************************************)
(* parse_ingredient_line on a line, and on the same line behind one list   *)
(* marker.                                                                 *)
(***************************************************************************)
InitBullet ==
  /\ bullet_run \in {[base |-> b, marker |-> m, plain |-> None, marked |-> None,
                      step |-> "start"] : b \in BASE_LINES, m \in MARKERS}
  /\ strip_run = NoStripRun
  /\ NoCall
  /\ Elsewhere

\* plain = parse_ingredient_line(base)
ParsePlain ==
  /\ bullet_run.step = "start"
  /\ bullet_run' = [bullet_run EXCEPT !.plain = PARSED[BRANDS][bullet_run.base],
                                      !.step = "plain"]
  /\ UNCHANGED <<parser_vars, strip_run, other_vars>>

\* marked = parse_ingredient_line(marker + base)
ParseMarked ==
  /\ bullet_run.step = "plain"
  /\ bullet_run' = [bullet_run EXCEPT
                      !.marked = PARSED[BRANDS][bullet_run.marker \o bullet_run.base],
                      !.step = "marked"]
  /\ UNCHANGED <<parser_vars, strip_run, other_vars>>

NextBullet == ParsePlain \/ ParseMarked

SpecBullet == InitBullet /\ [][NextBullet]_vars

(***************************************************************************)
(* The properties.  Those of parse_recipe_text are stated over the calls   *)
(* c, their records ingredients[c] and the lines they handled, log[c].     *)
(***************************************************************************)
\* every non-None result of parse_ingredient_line on the lines of the inputs
PARSED_RECORDS == UNION {{PARSED[o][l] : l \in PARSE_INPUTS} : o \in BRAND_ORDERS} \ {None}

\* the record appended for line i of the log of call c, an "ingredient" line
record_of(c, i) == ingredients[c][Cardinality({j \in 1..i : log[c][j].kind = "ingredient"})]

\* the current section before line i of call c
section_before(c, i) == IF i = 1 THEN None ELSE log[c][i - 1].section

\* the lines of a text as they are given, split at the line breaks
raw_lines(t) == split_on(t, "\n")

\* the lines whose name, once cleaned, is empty or one character long
SHORT_NAME_LINES ==
  {l \in LINES : /\ Len(strip_bullets(l)) > 0
                 /\ Len(clean_ingredient_name(remove_measurements(strip_bullets(l)))) < 2}

\* C1: every record emitted by parse_recipe_text and every non-None result of
\* parse_ingredient_line has a name of at least 2 characters, and a line whose cleaned
\* name is empty or one character long yields no record.
NameLength ==
  /\ \A c \in Calls : \A i \in 1..Len(ingredients[c]) : Len(ingredients[c][i].name) >= 2
  /\ \A r \in PARSED_RECORDS : Len(r[1].name) >= 2
  /\ \A c \in Calls : \A i \in 1..Len(log[c]) :
       log[c][i].line \in SHORT_NAME_LINES => log[c][i].kind # "ingredient"

\* a call that returned one record and dropped "2 x" (name "x") and "fresh" (name "")
NameLengthWitness ==
  \E c \in Calls :
     /\ pc[c] = "done"
     /\ Len(ingredients[c]) = 1
     /\ \E i, j \in 1..Len(log[c]) :
          /\ log[c][i].line = <<"2"," ","x">> /\ log[c][i].kind = "dropped"
          /\ log[c][j].line = <<"f","r","e","s","h">> /\ log[c][j].kind = "dropped"
          /\ {log[c][i].line, log[c][j].line} \subseteq SHORT_NAME_LINES

\* the lines that end with a colon, are at most 50 characters long and hold no number
\* followed by a unit
HEADER_LINES ==
  {l \in LINES : Len(l) > 0 /\ l[Len(l)] = ":" /\ Len(l) <= 50 /\ ~has_measurement(l)}

\* the boilerplate header lines, with or without a colon
GENERIC_LINES == {l \in LINES : is_generic_header(l)}

\* the section header lines: the header lines that are not boilerplate
SECTION_LINES == HEADER_LINES \ GENERIC_LINES

SECTION_TITLE == [l \in SECTION_LINES |-> extract_section_name(l)]

\* the section header lines before line i of call c
headers_before(c, i) == {j \in 1..(i - 1) : log[c][j].line \in SECTION_LINES}

\* the section a record carries under a header with this title; an empty title counts
\* as no section
carried(t) == IF Len(t) = 0 THEN None ELSE Some(t)

\* C2: once a section header line has been seen, every record emitted from a later line
\* carries the title of the most recent section header line; blank lines, dropped lines
\* and skipped generic header lines in between do not change the section.
SectionCarried ==
  \A c \in Calls : \A i \in 1..Len(log[c]) :
     log[c][i].kind = "ingredient" /\ headers_before(c, i) # {} =>
        record_of(c, i).section =
           carried(SECTION_TITLE[log[c][Max(headers_before(c, i))].line])

\* C3: a generic boilerplate header line, with or without a colon, produces no record
\* and leaves the current section as it was, wherever it stands in the input.
GenericSkipped ==
  \A c \in Calls : \A i \in 1..Len(log[c]) :
     log[c][i].line \in GENERIC_LINES =>
        /\ log[c][i].kind # "ingredient"
        /\ log[c][i].section = section_before(c, i)

\* the original fields of the records of call c, in order
originals(c) == [i \in 1..Len(ingredients[c]) |-> ingredients[c][i].original]

\* the lines that yield a record
EMITTING_LINES ==
  {l \in LINES : /\ Len(l) > 0
                 /\ ~is_section_header(l)
                 /\ ~is_generic_header(l)
                 /\ PARSED[BRANDS][l] # None}

emits(l) == l \in EMITTING_LINES

\* each line without its leading and trailing whitespace
trimmed(ls) == [i \in 1..Len(ls) |-> strip(ls[i])]

\* whether a is b with some of its elements left out
RECURSIVE is_subsequence(_, _)
is_subsequence(a, b) ==
  IF Len(a) = 0 THEN TRUE
  ELSE IF Len(b) = 0 THEN FALSE
  ELSE IF Head(a) = Head(b) THEN is_subsequence(Tail(a), Tail(b))
  ELSE is_subsequence(a, Tail(b))

StripIdempotent == strip_run.step = "twice" => strip_run.twice = strip_run.once

\* C6: a line that parses to a record parses, behind one list marker, to a record with the
\* same name, optional flag and confidence.
BulletEquivalence ==
  bullet_run.step = "marked" /\ bullet_run.plain # None =>
     /\ bullet_run.marked # None
     /\ bullet_run.marked[1].name = bullet_run.plain[1].name
     /\ bullet_run.marked[1].optional = bullet_run.plain[1].optional
     /\ bullet_run.marked[1].confidence = bullet_run.plain[1].confidence

\* whether every line of the text is blank
all_blank(t) == \A i \in 1..Len(raw_lines(t)) : Len(strip(raw_lines(t)[i])) = 0

\* C7: parse_recipe_text never raises; it handles every line, the ones after a dropped
\* line included, and returns an empty list for an empty or all-blank text.
NeverRaises ==
  \A c \in Calls :
     /\ exc[c] = None
     /\ pc[c] # "raised"
     /\ pc[c] = "done" =>
          /\ Len(log[c]) = Len(lines[c])
          /\ all_blank(text[c]) => ingredients[c] = << >>

\* a call that returned after it dropped a line and then emitted a record for a later one
NeverRaisesWitness ==
  \E c \in Calls :
     /\ pc[c] = "done"
     /\ exc[c] = None
     /\ \E i, j \in 1..Len(log[c]) :
          i < j /\ log[c][i].kind = "dropped" /\ log[c][j].kind = "ingredient"

\* C8: whatever the interleaving of the invocations and the iteration order of the BRANDS
\* set, an invocation returns the records its text yields when it is parsed alone.  The
\* lexical tables are constants of the module: no statement of the source assigns to them
\* or calls a mutating method on them.
SameOutput ==
  \A c \in Calls : pc[c] = "done" => ingredients[c] = RESULT[text[c]]

\* two invocations on different texts, one with a header and one with brands in it, both
\* returned with records, in a process that iterates BRANDS in the other order
SameOutputWitness ==
  /\ \A c \in Calls : pc[c] = "done" /\ Len(ingredients[c]) > 0
  /\ \E c, d \in Calls :
       /\ text[c] # text[d]
       /\ text[c] = BRAND_LINE
       /\ ingredients[d][1].section # None
  /\ brand_order # BRANDS

\* the lines with the word "optional", in any case, in what strip_bullets leaves of them
OPTIONAL_LINES == {l \in PARSE_INPUTS : Contains(lower(strip_bullets(l)), <<"o","p","t","i","o","n","a","l">>)}

\* C9: a record is optional if and only if the word "optional" occurs, as a run of
\* characters in any case, in its line once the bullets are stripped, whether or not the
\* name still holds it.
OptionalFlag ==
  /\ \A c \in Calls : \A i \in 1..Len(ingredients[c]) :
       ingredients[c][i].optional <=> ingredients[c][i].original \in OPTIONAL_LINES
  /\ \A r \in PARSED_RECORDS : r[1].optional <=> r[1].original \in OPTIONAL_LINES

\* a call with an optional record whose name lost the word, and a record that is not
\* optional
OptionalFlagWitness ==
  \E c \in Calls : \E i, j \in 1..Len(ingredients[c]) :
     /\ ingredients[c][i].optional
     /\ ingredients[c][i].original = <<"-"," ","2"," ","t","b","s","p"," ","o","l","i","v","e"," ","o","i","l"," ","(","O","p","t","i","o","n","a","l",")">>
     /\ ~Contains(lower(ingredients[c][i].name), <<"o","p","t","i","o","n","a","l">>)
     /\ ~ingredients[c][j].optional

\* s without the prefix, matched in any case
without_prefix(s, prefix) == IF MatchAtI(s, 1, prefix) THEN From(s, Len(prefix) + 1) ELSE s

\* a header line without its trailing colon and a leading "for the " or "for ", title-cased
HEADER_TITLE ==
  [l \in HEADER_LINES |->
     title(without_prefix(without_prefix(Upto(l, Len(l) - 1), <<"f","o","r"," ","t","h","e"," ">>), <<"f","o","r"," ">>))]

\* the lines that end with a colon and hold a number followed by a unit
MEASURED_COLON_LINES == {l \in LINES : Len(l) > 0 /\ l[Len(l)] = ":" /\ has_measurement(l)}

SectionIffHeader ==
  \A c \in Calls : \A i \in 1..Len(log[c]) :
     log[c][i].kind = "ingredient" =>
        ( record_of(c, i).section = None
            <=> ~(\E j \in 1..(i - 1) : log[c][j].kind = "section") )

(***************************************************************************)
(* The steps of the parser, each applied alone to one input.               *)
(***************************************************************************)
\* names for assess_confidence: empty, one and two characters, blank, in the common list
\* in either case, one to five words
CONFIDENCE_NAMES ==
  { <<>>, <<"x">>, <<"o","x">>, <<" "," "," ">>, <<"s","a","l","t">>, <<"S","a","l","t">>, <<"E","G","G">>, <<"e","g","g","s">>, <<"e","g","g">>, <<"p","a","p","r","i","k","a">>,
    <<"t","e","a">>, <<"o","l","i","v","e"," ","o","i","l">>, <<"a"," ","b">>, <<"r","e","d"," ","b","e","l","l"," ","p","e","p","p","e","r">>, <<"s","a","l","t"," ","p","e","p","p","e","r">>, <<"a"," ","b"," ","c"," ","d">>,
    <<"e","x","t","r","a"," ","v","i","r","g","i","n"," ","o","l","i","v","e"," ","o","i","l"," ","b","l","e","n","d">>, <<" ","s","a","l","t">>, <<"o","i","l"," ">> }

\* bullet-stripped lines for Step 3 of parse_ingredient_line: with a leading measurement
\* (and a trailing one, a range, a parenthesis, an "of" phrase behind it), with an "of"
\* phrase (and a trailing measurement), with neither
MEASUREMENT_LINES ==
  { <<"2"," ","c","u","p","s"," ","f","l","o","u","r">>, <<"2"," ","c","u","p","s"," ","c","r","u","s","h","e","d"," ","t","o","m","a","t","o","e","s"," ","1"," ","c","a","n">>, <<"c","r","u","s","h","e","d"," ","t","o","m","a","t","o","e","s"," ","1"," ","c","a","n">>,
    <<"z","e","s","t"," ","o","f"," ","1"," ","l","e","m","o","n">>, <<"J","u","i","c","e"," ","O","F"," ","2"," ","l","i","m","e","s">>, <<"j","u","i","c","e"," ","o","f"," ","1","/","2"," ","l","e","m","o","n">>, <<"o","l","i","v","e"," ","o","i","l">>,
    <<"2"," ","t","b","s","p"," ","t","o"," ","1","/","4"," ","c","u","p"," ","o","l","i","v","e"," ","o","i","l">>, <<"1"," ","(","1","5"," ","o","u","n","c","e",")"," ","c","a","n"," ","b","l","a","c","k"," ","b","e","a","n","s">>, <<"3"," ","e","g","g","s">>,
    <<"2"," ","z","e","s","t"," ","o","f"," ","1"," ","l","e","m","o","n">>, <<"z","e","s","t"," ","o","f"," ","1"," ","l","e","m","o","n"," ","2"," ","t","s","p">>, <<"1"," ","g">>, <<"s","a","l","t"," ","1"," ","t","s","p">>,
    <<"2"," ","c","u","p","s"," ","f","l","o","u","r"," ","1"," ","c","u","p"," ","2"," ","o","z">>, <<"a"," ","p","i","n","c","h"," ","o","f"," ","1"," ","s","a","l","t"," ","2"," ","o","z">> }

\* texts for the prep-word filter: a product descriptor, a prep word or another word in
\* first position, prep words and descriptors behind it, words with punctuation, one word
PREP_TEXTS ==
  { <<"g","r","o","u","n","d"," ","b","e","e","f">>, <<"c","r","u","s","h","e","d"," ","t","o","m","a","t","o","e","s">>, <<"m","a","r","i","n","a","t","e","d"," ","a","r","t","i","c","h","o","k","e","s">>, <<"s","h","r","e","d","d","e","d"," ","c","h","e","e","s","e">>,
    <<"c","h","o","p","p","e","d"," ","o","n","i","o","n">>, <<"o","n","i","o","n"," ","c","h","o","p","p","e","d">>, <<"d","i","c","e","d">>, <<"c","h","o","p","p","e","d"," ","d","i","c","e","d">>, <<"b","e","e","f"," ","g","r","o","u","n","d">>,
    <<"G","r","o","u","n","d",","," ","b","e","e","f"," ","m","i","n","c","e","d",".">>, <<"s","a","l","t"," ",";"," ","p","e","p","p","e","r">>, <<"o","l","i","v","e"," ","o","i","l">>, <<>>, <<"C","h","o","p","p","e","d"," ","f","r","e","s","h"," ","b","a","s","i","l">>,
    <<"g","r","o","u","n","d"," ","c","h","o","p","p","e","d"," ","b","e","e","f">>, <<" "," ","f","r","e","s","h"," "," ">> }

\* texts for the size/color/quality filter: a color word before each of pepper, peppers,
\* bell, cabbage and squash, before other words, in last position, alone, with a capital,
\* with a comma, before a size word, before another color word
COLOR_TEXTS ==
  { <<"g","r","e","e","n"," ","b","e","l","l"," ","p","e","p","p","e","r">>, <<"r","e","d"," ","o","n","i","o","n">>, <<"b","l","a","c","k"," ","b","e","a","n","s">>, <<"y","e","l","l","o","w"," ","s","q","u","a","s","h">>, <<"r","e","d"," ","c","a","b","b","a","g","e">>,
    <<"r","e","d"," ","p","e","p","p","e","r","s">>, <<"p","e","p","p","e","r"," ","r","e","d">>, <<"r","e","d">>, <<"R","e","d"," ","P","e","p","p","e","r",".">>, <<"r","e","d"," ","l","a","r","g","e"," ","p","e","p","p","e","r">>,
    <<"l","a","r","g","e"," ","r","e","d"," ","o","n","i","o","n">>, <<"g","r","e","e","n",","," ","b","e","l","l"," ","p","e","p","p","e","r">>, <<"w","h","i","t","e"," ","r","i","c","e">>, <<"r","e","d"," ","g","r","e","e","n"," ","p","e","p","p","e","r">>,
    <<"o","l","i","v","e"," ","o","i","l">>, <<>>, <<"r","e","d"," ","p","e","p","p","e","r","-","f","l","a","k","e","s">>, <<"r","e","d"," ","b","e","l","l">> }

\* texts for the "or" resolution: two and three alternatives, with fewer descriptor and
\* prep words in the first, the middle or the last, tied with more words in one, tied
\* altogether; "or" in capitals, at an end, behind a tab
OR_TEXTS ==
  { <<"b","u","t","t","e","r"," ","o","r"," ","m","a","r","g","a","r","i","n","e">>, <<"f","r","e","s","h"," ","b","u","t","t","e","r"," ","o","r"," ","m","a","r","g","a","r","i","n","e">>, <<"b","u","t","t","e","r"," ","o","r"," ","f","r","e","s","h"," ","m","a","r","g","a","r","i","n","e">>,
    <<"b","u","t","t","e","r"," ","o","r"," ","o","l","i","v","e"," ","o","i","l">>, <<"s","t","o","r","e","-","b","o","u","g","h","t"," ","o","r"," ","b","a","s","i","l"," ","p","e","s","t","o"," ","h","o","m","e","m","a","d","e">>,
    <<"l","a","r","g","e"," ","e","g","g","s"," ","o","r"," ","s","m","a","l","l"," ","e","g","g","s">>, <<"b","u","t","t","e","r"," "," ","O","R"," "," ","m","a","r","g","a","r","i","n","e">>, <<"r","e","d","."," ","p","e","p","p","e","r"," ","o","r"," ","s","a","l","t">>,
    <<"a"," ","o","r"," ","b"," ","o","r"," ","c">>, <<"f","r","e","s","h"," ","a"," ","o","r"," ","b"," ","o","r"," ","c"," ","d">>,
    <<"l","a","r","g","e"," ","c","h","o","p","p","e","d"," ","b","u","t","t","e","r"," ","o","r"," ","m","a","r","g","a","r","i","n","e"," ","o","r"," ","f","r","e","s","h"," ","d","i","c","e","d"," ","o","i","l">>,
    <<"x"," ","o","r">>, <<" ","o","r"," ","y">>, <<"a", "\t", "o", "r", " ", "b">>, <<"o","l","i","v","e"," ","o","i","l">>, <<>> }

\* texts for the "and" resolution: a first component of no, one, two, three, four and five
\* words; "and" in capitals, twice, inside a word, at an end, between tabs and runs of spaces
AND_TEXTS ==
  { <<"s","a","l","t"," ","a","n","d"," ","p","e","p","p","e","r">>, <<"z","e","s","t"," ","a","n","d"," ","j","u","i","c","e"," ","o","f"," ","l","e","m","o","n">>, <<"r","e","d"," ","b","e","l","l"," ","p","e","p","p","e","r"," ","a","n","d"," ","o","n","i","o","n">>,
    <<"e","x","t","r","a"," ","v","i","r","g","i","n"," ","o","l","i","v","e"," ","o","i","l"," ","a","n","d"," ","v","i","n","e","g","a","r">>, <<"o","n","e"," ","t","w","o"," ","t","h","r","e","e"," ","f","o","u","r"," ","f","i","v","e"," ","a","n","d"," ","s","i","x">>,
    <<"S","a","l","t"," ","A","N","D"," ","P","e","p","p","e","r">>, <<"s","a","l","t"," "," ","a","n","d"," "," "," ","p","e","p","p","e","r">>, <<"a"," ","a","n","d"," ","b"," ","a","n","d"," ","c">>, <<"a"," ","b"," ","c"," ","d"," ","a","n","d"," ","e"," ","a","n","d"," ","f">>,
    <<"s","a","n","d"," ","a","n","d"," ","g","r","a","v","e","l">>, <<"b","r","a","n","d","y"," ","a","n","d","o","u","i","l","l","e">>, <<"c","a","n","d","y">>, <<" ","a","n","d"," ","p","e","p","p","e","r">>, <<"s","a","l","t"," ","a","n","d">>,
    <<"a", "\t", "a", "n", "d", " ", "b", " ", "a", "n", "d", " ", "c">>, <<>> }

\* texts for the clause filter, each with the clauses that its commas and its dashes
\* between whitespace divide it into: clauses of prep words, of quality words, of both and
\* of other words, in first, middle and last position; an empty clause; hyphens inside
\* words and at one end of a word; an en dash; no separator
CLAUSE_EXAMPLES ==
  { [text |-> <<"m","a","r","i","n","a","t","e","d",","," ","q","u","a","r","t","e","r","e","d"," ","a","r","t","i","c","h","o","k","e","s",","," ","d","r","a","i","n","e","d">>,
     clauses |-> <<<<"m","a","r","i","n","a","t","e","d">>, <<"q","u","a","r","t","e","r","e","d"," ","a","r","t","i","c","h","o","k","e","s">>, <<"d","r","a","i","n","e","d">>>>],
    [text |-> <<"b","l","a","c","k"," ","p","e","p","p","e","r"," ","-"," ","p","r","e","f","e","r","a","b","l","y"," ","f","r","e","s","h","l","y"," ","g","r","i","n","d","e","d">>,
     clauses |-> <<<<"b","l","a","c","k"," ","p","e","p","p","e","r">>, <<"p","r","e","f","e","r","a","b","l","y"," ","f","r","e","s","h","l","y"," ","g","r","i","n","d","e","d">>>>],
    [text |-> <<"b","l","a","c","k"," ","p","e","p","p","e","r"," ","-"," ","p","r","e","f","e","r","a","b","l","y"," ","f","r","e","s","h","l","y"," ","c","h","o","p","p","e","d">>,
     clauses |-> <<<<"b","l","a","c","k"," ","p","e","p","p","e","r">>, <<"p","r","e","f","e","r","a","b","l","y"," ","f","r","e","s","h","l","y"," ","c","h","o","p","p","e","d">>>>],
    [text |-> <<"s","t","o","r","e","-","b","o","u","g","h","t"," ","p","e","s","t","o">>, clauses |-> <<<<"s","t","o","r","e","-","b","o","u","g","h","t"," ","p","e","s","t","o">>>>],
    [text |-> <<"s","t","o","r","e","-","b","o","u","g","h","t"," ","p","e","s","t","o",","," ","h","o","m","e","m","a","d","e">>, clauses |-> <<<<"s","t","o","r","e","-","b","o","u","g","h","t"," ","p","e","s","t","o">>, <<"h","o","m","e","m","a","d","e">>>>],
    [text |-> <<"c","h","i","c","k","e","n"," ","b","r","e","a","s","t","s",","," ","b","o","n","e","l","e","s","s"," ","s","k","i","n","l","e","s","s">>,
     clauses |-> <<<<"c","h","i","c","k","e","n"," ","b","r","e","a","s","t","s">>, <<"b","o","n","e","l","e","s","s"," ","s","k","i","n","l","e","s","s">>>>],
    [text |-> <<"a","r","t","i","c","h","o","k","e","s",","," ","d","r","a","i","n","e","d">>, clauses |-> <<<<"a","r","t","i","c","h","o","k","e","s">>, <<"d","r","a","i","n","e","d">>>>],
    [text |-> <<"a","r","t","i","c","h","o","k","e","s",","," ","d","r","a","i","n","e","d",".">>, clauses |-> <<<<"a","r","t","i","c","h","o","k","e","s">>, <<"d","r","a","i","n","e","d",".">>>>],
    [text |-> <<"o","l","i","v","e"," ","o","i","l",","," ","e","x","t","r","a"," ","v","i","r","g","i","n">>, clauses |-> <<<<"o","l","i","v","e"," ","o","i","l">>, <<"e","x","t","r","a"," ","v","i","r","g","i","n">>>>],
    [text |-> <<"f","r","e","s","h",","," ","c","h","o","p","p","e","d">>, clauses |-> <<<<"f","r","e","s","h">>, <<"c","h","o","p","p","e","d">>>>],
    [text |-> <<"D","i","c","e","d"," ",","," ","T","o","m","a","t","o","e","s">>, clauses |-> <<<<"D","i","c","e","d">>, <<"T","o","m","a","t","o","e","s">>>>],
    [text |-> <<"s", "a", "l", "t", " ", "u2013", " ", "t", "o", " ", "t", "a", "s", "t", "e">>,
     clauses |-> <<<<"s","a","l","t">>, <<"t","o"," ","t","a","s","t","e">>>>],
    [text |-> <<"w","e","l","l","-","d","o","n","e"," ","s","t","e","a","k"," ","-"," ","s","l","i","c","e","d">>, clauses |-> <<<<"w","e","l","l","-","d","o","n","e"," ","s","t","e","a","k">>, <<"s","l","i","c","e","d">>>>],
    [text |-> <<"o","n","i","o","n",",",","," ","d","i","c","e","d">>, clauses |-> <<<<"o","n","i","o","n">>, <<>>, <<"d","i","c","e","d">>>>],
    [text |-> <<"p","e","p","p","e","r"," ","-","b","l","a","c","k">>, clauses |-> <<<<"p","e","p","p","e","r"," ","-","b","l","a","c","k">>>>],
    [text |-> <<"a"," "," ","-"," "," ","b",","," ","c">>, clauses |-> <<<<"a">>, <<"b">>, <<"c">>>>],
    [text |-> <<>>, clauses |-> <<<<>>>>] }

CLAUSE_TEXTS == {e.text : e \in CLAUSE_EXAMPLES}

\* texts for clean_ingredient_name as a whole: entries of SIZE_WORDS and QUALITY_WORDS of
\* one word and of two, before a product; a color word before pepper, bell, cabbage and
\* squash, next to it and with size and quality words in between; a color word to keep
NAME_TEXTS ==
  { <<"f","r","e","s","h"," ","b","a","s","i","l">>, <<"o","r","g","a","n","i","c"," ","c","h","i","c","k","e","n">>, <<"e","x","t","r","a"," ","v","i","r","g","i","n"," ","o","l","i","v","e"," ","o","i","l">>, <<"f","r","e","e"," ","r","a","n","g","e"," ","c","h","i","c","k","e","n">>,
    <<"f","r","e","e","-","r","a","n","g","e"," ","c","h","i","c","k","e","n">>, <<"f","u","l","l"," ","f","a","t"," ","y","o","g","u","r","t">>, <<"l","a","r","g","e"," ","e","g","g","s">>, <<"e","x","t","r","a"," ","l","a","r","g","e"," ","e","g","g","s">>,
    <<"g","r","a","s","s"," ","f","e","d"," ","b","e","e","f">>, <<"l","o","w"," ","f","a","t"," ","m","i","l","k">>, <<"r","e","d"," ","b","e","l","l"," ","p","e","p","p","e","r">>, <<"r","e","d"," ","l","a","r","g","e"," ","p","e","p","p","e","r">>,
    <<"y","e","l","l","o","w"," ","f","r","e","s","h"," ","s","q","u","a","s","h">>, <<"r","e","d"," ","s","m","a","l","l"," ","o","r","g","a","n","i","c"," ","c","a","b","b","a","g","e">>, <<"b","l","a","c","k"," ","p","e","p","p","e","r">>, <<"r","e","d"," ","o","n","i","o","n">>,
    <<"o","l","i","v","e"," ","o","i","l">>, <<"G","r","e","e","n"," ","L","a","r","g","e"," ","B","e","l","l"," ","P","e","p","p","e","r","s">> }

STEP_INPUTS ==
  [op \in {"assess_confidence", "remove_measurements", "filter_prep_words",
           "filter_descriptors", "resolve_or", "resolve_and", "filter_clauses",
           "clean_ingredient_name"} |->
     CASE op = "assess_confidence" -> CONFIDENCE_NAMES
       [] op = "remove_measurements" -> MEASUREMENT_LINES
       [] op = "filter_prep_words" -> PREP_TEXTS
       [] op = "filter_descriptors" -> COLOR_TEXTS
       [] op = "resolve_or" -> OR_TEXTS
       [] op = "resolve_and" -> AND_TEXTS
       [] op = "filter_clauses" -> CLAUSE_TEXTS
       [] op = "clean_ingredient_name" -> NAME_TEXTS]

STEP_OPS == DOMAIN STEP_INPUTS

\* the step op applied to x
apply_step(op, x) ==
  CASE op = "assess_confidence" -> assess_confidence(x)
    [] op = "remove_measurements" -> remove_measurements(x)
    [] op = "filter_prep_words" -> filter_prep_words(x)
    [] op = "filter_descriptors" -> filter_descriptors(x)
    [] op = "resolve_or" -> resolve_or(x)
    [] op = "resolve_and" -> resolve_and(x)
    [] op = "filter_clauses" -> filter_clauses(x)
    [] op = "clean_ingredient_name" -> clean_ingredient_name(x)

\* the result of each step on each of its inputs
STEP_RESULT == [op \in STEP_OPS |-> [x \in STEP_INPUTS[op] |-> apply_step(op, x)]]

InitSteps ==
  /\ step_run \in {[op |-> o[1], x |-> o[2], out |-> None, at |-> "start"] :
                     o \in UNION {{<<op, x>> : x \in STEP_INPUTS[op]} : op \in STEP_OPS}}
  /\ strip_run = NoStripRun
  /\ bullet_run = NoBulletRun
  /\ NoCall
  /\ NoService

\* step_run with out = op(x)
applied(op) ==
  [step_run EXCEPT !.out = Some(STEP_RESULT[op][step_run.x]), !.at = "done"]

\* confidence = assess_confidence(name)
AssessConfidence ==
  /\ step_run.at = "start"
  /\ step_run.op = "assess_confidence"
  /\ step_run' = applied("assess_confidence")
  /\ UNCHANGED <<parser_vars, strip_run, bullet_run, service_vars>>

\* Step 3 of parse_ingredient_line
RemoveMeasurements ==
  /\ step_run.at = "start"
  /\ step_run.op = "remove_measurements"
  /\ step_run' = applied("remove_measurements")
  /\ UNCHANGED <<parser_vars, strip_run, bullet_run, service_vars>>

\* the prep-word filter of clean_ingredient_name
FilterPrepWords ==
  /\ step_run.at = "start"
  /\ step_run.op = "filter_prep_words"
  /\ step_run' = applied("filter_prep_words")
  /\ UNCHANGED <<parser_vars, strip_run, bullet_run, service_vars>>

\* the size/color/quality filter of clean_ingredient_name
FilterDescriptors ==
  /\ step_run.at = "start"
  /\ step_run.op = "filter_descriptors"
  /\ step_run' = applied("filter_descriptors")
  /\ UNCHANGED <<parser_vars, strip_run, bullet_run, service_vars>>

\* the "or" alternatives of clean_ingredient_name
ResolveOr ==
  /\ step_run.at = "start"
  /\ step_run.op = "resolve_or"
  /\ step_run' = applied("resolve_or")
  /\ UNCHANGED <<parser_vars, strip_run, bullet_run, service_vars>>

\* the "and" compounds of clean_ingredient_name
ResolveAnd ==
  /\ step_run.at = "start"
  /\ step_run.op = "resolve_and"
  /\ step_run' = applied("resolve_and")
  /\ UNCHANGED <<parser_vars, strip_run, bullet_run, service_vars>>

\* the clause filter of clean_ingredient_name
FilterClauses ==
  /\ step_run.at = "start"
  /\ step_run.op = "filter_clauses"
  /\ step_run' = applied("filter_clauses")
  /\ UNCHANGED <<parser_vars, strip_run, bullet_run, service_vars>>

\* clean_ingredient_name from its first step to its return
CleanIngredientName ==
  /\ step_run.at = "start"
  /\ step_run.op = "clean_ingredient_name"
  /\ step_run' = applied("clean_ingredient_name")
  /\ UNCHANGED <<parser_vars, strip_run, bullet_run, service_vars>>

NextSteps ==
  \/ AssessConfidence
  \/ RemoveMeasurements
  \/ FilterPrepWords
  \/ FilterDescriptors
  \/ ResolveOr
  \/ ResolveAnd
  \/ FilterClauses
  \/ CleanIngredientName

SpecSteps == InitSteps /\ [][NextSteps]_vars

(***************************************************************************)
(* The properties of the steps.                                            *)
(***************************************************************************)
\* the result of the step op, once it ran on x
ran(op) == step_run.op = op /\ step_run.at = "done"

\* the rules of the confidence in their order, the first that matches decides
confidence_by_rule(name, words) ==
  IF Len(name) < 2 THEN "low"
  ELSE IF \E common \in COMMON_SINGLE : lower(name) = common THEN "high"
  ELSE IF words \in {2, 3} THEN "high"
  ELSE IF words >= 4 \/ Len(name) < 3 THEN "low"
  ELSE "medium"

\* C11: assess_confidence gives, for every name, what the first matching rule gives: low
\* for fewer than 2 characters, high for a common ingredient in any case, high for 2 or 3
\* words, low for 4 or more words or fewer than 3 characters, medium otherwise; and every
\* record of parse_ingredient_line has the confidence of its name.
ConfidenceRules ==
  /\ ran("assess_confidence") =>
       step_run.out = Some(confidence_by_rule(step_run.x, Len(split(step_run.x))))
  /\ \A r \in PARSED_RECORDS :
       r[1].confidence = confidence_by_rule(r[1].name, Len(split(r[1].name)))

\* assess_confidence ran on a common ingredient written with a capital, which is high
ConfidenceRulesWitness ==
  /\ ran("assess_confidence")
  /\ step_run.x = <<"S","a","l","t">>
  /\ step_run.out = Some("high")

\* where the leading quantity and unit pattern ends in each line, 0 where it does not match
LEADING_END == [x \in MEASUREMENT_LINES |-> measurement_match(x)]

\* where "<words> of <N> " ends in each line, 0 where the line has not that form
OF_END == [x \in MEASUREMENT_LINES |-> of_match(x)]

\* the ingredient text of each line by the three strategies, the first that applies
INGREDIENT_TEXT ==
  [x \in MEASUREMENT_LINES |->
     IF LEADING_END[x] # 0 THEN sub_trailing_measurement(strip(From(x, LEADING_END[x])))
     ELSE IF OF_END[x] # 0 THEN strip(From(x, OF_END[x]))
     ELSE x]

\* C12: the measurement is stripped by exactly one of three strategies, tried in order:
\* the leading pattern matched, what it matched and a trailing "<amount> <unit>" at the
\* end of the rest are removed; else the line is "<words> of <N> <noun>", the text after
\* the number is kept; else the line is the ingredient text as it is.
OneStrategy ==
  ran("remove_measurements") => step_run.out = Some(INGREDIENT_TEXT[step_run.x])

\* a line with a leading and a trailing measurement, left with the words between them
OneStrategyWitness ==
  /\ ran("remove_measurements")
  /\ step_run.x = <<"2"," ","c","u","p","s"," ","c","r","u","s","h","e","d"," ","t","o","m","a","t","o","e","s"," ","1"," ","c","a","n">>
  /\ LEADING_END[step_run.x] # 0
  /\ step_run.out = Some(<<"c","r","u","s","h","e","d"," ","t","o","m","a","t","o","e","s">>)

\* a word that is no prep word, its case and the punctuation around it set aside
no_prep_word(w) == word_key(w) \notin PREP_WORDS

\* a word that is no prep word and not punctuation alone
no_prep_nor_punctuation(w) == no_prep_word(w) /\ Len(word_key(w)) > 0

\* the first word by the rule: kept when it is one of the descriptors, dropped when it is
\* a prep word, kept otherwise
first_by_rule(w, descriptors) ==
  IF word_key(w) \in descriptors THEN <<w>>
  ELSE IF word_key(w) \in PREP_WORDS THEN << >>
  ELSE <<w>>

\* whether out is what the prep-word rule makes of the words: one word or none is passed
\* through; of more, the first goes by first_by_rule and the later prep words are dropped.
\* A later word of punctuation alone may stay or go.
prep_rule(words, out, descriptors) ==
  IF Len(words) <= 1 THEN out = join(words)
  ELSE out \in {join(first_by_rule(words[1], descriptors) \o SelectSeq(Tail(words), no_prep_word)),
                join(first_by_rule(words[1], descriptors)
                     \o SelectSeq(Tail(words), no_prep_nor_punctuation))}

\* C13: of more than one word, the first is kept if it is a product descriptor of the
\* table (ground, crushed, marinated, roasted, smoked, pickled, cured, aged, fermented),
\* else dropped if it is a prep word; every later prep word is dropped; a single word is
\* passed through unchanged.
PrepWordRule ==
  ran("filter_prep_words") =>
     prep_rule(split(step_run.x), step_run.out[1], PRODUCT_DESCRIPTORS)

\* the filter kept "ground" in first position and dropped the prep word behind it
PrepWordRuleWitness ==
  /\ ran("filter_prep_words")
  /\ step_run.x = <<"g","r","o","u","n","d"," ","c","h","o","p","p","e","d"," ","b","e","e","f">>
  /\ step_run.out = Some(<<"g","r","o","u","n","d"," ","b","e","e","f">>)

\* the product descriptors as C13 lists them: shredded among them
CLAIMED_DESCRIPTORS == PRODUCT_DESCRIPTORS \cup {<<"s","h","r","e","d","d","e","d">>}

\* C13 as stated: a first word ground, crushed, shredded, ... is kept unconditionally.
PrepWordRuleShredded ==
  ran("filter_prep_words") =>
     prep_rule(split(step_run.x), step_run.out[1], CLAIMED_DESCRIPTORS)

\* the words after which a color word is dropped
COLOR_DROPPED_BEFORE == {<<"p","e","p","p","e","r">>, <<"p","e","p","p","e","r","s">>, <<"b","e","l","l">>, <<"c","a","b","b","a","g","e">>, <<"s","q","u","a","s","h">>}

\* each word with the word that follows it, the empty word after the last
with_next(words) ==
  [i \in 1..Len(words) |->
     [word |-> words[i],
      next |-> IF i < Len(words) THEN word_key(words[i + 1]) ELSE << >>]]

\* a color word stays unless the next word is one of the five; another word stays unless
\* it is a size or quality word
stays(w) ==
  IF word_key(w.word) \in COLOR_WORDS THEN w.next \notin COLOR_DROPPED_BEFORE
  ELSE word_key(w.word) \notin SIZE_WORDS \cup QUALITY_WORDS

words_of(pairs) == [i \in 1..Len(pairs) |-> pairs[i].word]

\* clean_ingredient_name on the examples of C14
COLOR_EXAMPLES ==
  [x \in {<<"g","r","e","e","n"," ","b","e","l","l"," ","p","e","p","p","e","r">>, <<"r","e","d"," ","o","n","i","o","n">>, <<"b","l","a","c","k"," ","b","e","a","n","s">>} |-> clean_ingredient_name(x)]

\* C14: a color word is dropped if and only if the next word is one of pepper, peppers,
\* bell, cabbage, squash; before any other word and in last position it is kept.
ColorRule ==
  /\ ran("filter_descriptors") =>
       step_run.out = Some(join(words_of(SelectSeq(with_next(split(step_run.x)), stays))))
  /\ COLOR_EXAMPLES[<<"g","r","e","e","n"," ","b","e","l","l"," ","p","e","p","p","e","r">>] = <<"b","e","l","l"," ","p","e","p","p","e","r">>
  /\ COLOR_EXAMPLES[<<"r","e","d"," ","o","n","i","o","n">>] = <<"r","e","d"," ","o","n","i","o","n">>
  /\ COLOR_EXAMPLES[<<"b","l","a","c","k"," ","b","e","a","n","s">>] = <<"b","l","a","c","k"," ","b","e","a","n","s">>

\* the filter dropped "green" before "bell" and kept the two words behind it
ColorRuleWitness ==
  /\ ran("filter_descriptors")
  /\ step_run.x = <<"g","r","e","e","n"," ","b","e","l","l"," ","p","e","p","p","e","r">>
  /\ step_run.out = Some(<<"b","e","l","l"," ","p","e","p","p","e","r">>)

\* whether part a, at position i, goes before part b, at position j: fewer descriptor and
\* prep words, or as many and more words, or as many of both and the earlier position
preferred_part(a, i, b, j) ==
  \/ junk(a) < junk(b)
  \/ junk(a) = junk(b) /\ Len(split(a)) > Len(split(b))
  \/ junk(a) = junk(b) /\ Len(split(a)) = Len(split(b)) /\ i <= j

\* the part that goes before every other
best_part(parts) ==
  parts[CHOOSE i \in 1..Len(parts) :
          \A j \in 1..Len(parts) : preferred_part(parts[i], i, parts[j], j)]

\* C15: a text with " or " in it is resolved to the alternative, of its two or more, with
\* the lowest junk score; tied, to the one with more words; tied again, to the first.
OrRule ==
  ran("resolve_or") /\ Contains(lower(step_run.x), <<" ","o","r"," ">>) =>
     step_run.out = Some(best_part(split_phrase(step_run.x, <<<<"o","r">>>>)))

\* whether " and ", in any case and between any white space, starts at position i of s
and_at(s, i) ==
  /\ s[i] \in WS
  /\ MatchAtI(s, SpanEnd(s, i, WS), <<"a","n","d">>)
  /\ SpanEnd(s, i, WS) + 3 <= Len(s)
  /\ s[SpanEnd(s, i, WS) + 3] \in WS

\* the first component: what stands before the first " and "
before_and(s) == Upto(s, Min({i \in 1..Len(s) : and_at(s, i)}) - 1)

\* the words of a text, counted at its white space
word_count(s) ==
  Cardinality({i \in 1..Len(s) : s[i] \notin WS /\ (i = 1 \/ s[i - 1] \in WS)})

clauses_of_text == (CHOOSE e \in CLAUSE_EXAMPLES : e.text = step_run.x).clauses

\* a clause with a word that is neither a prep word nor a quality word
clause_stays(clause) ==
  \E k \in DOMAIN split(clause) :
    lower(split(clause)[k]) \notin (PREP_WORDS \cup QUALITY_WORDS)

\* the clauses that stay, in their order
RECURSIVE staying(_)
staying(clauses) ==
  IF clauses = << >> THEN << >>
  ELSE (IF clause_stays(Head(clauses)) THEN <<Head(clauses)>> ELSE << >>) \o staying(Tail(clauses))

appears(entry, words) ==
  \E i \in 0..(Len(words) - Len(entry)) : SubSeq(words, i + 1, i + Len(entry)) = entry

\* C25: no entry of SIZE_WORDS or QUALITY_WORDS, of one word or of more, stands as a
\* word or as a phrase in a name that clean_ingredient_name returns
NoDescriptorLeft ==
  (step_run.at = "done" /\ step_run.op = "clean_ingredient_name") =>
    \A entry \in SIZE_WORDS \cup QUALITY_WORDS :
      ~appears(split(entry), split(lower(step_run.out[1])))

\* C28: in a name that clean_ingredient_name returns, no color word stands right before
\* pepper, peppers, bell, cabbage or squash
NoColorBeforePepper ==
  (step_run.at = "done" /\ step_run.op = "clean_ingredient_name") =>
    \A i \in 1..(Len(split(step_run.out[1])) - 1) :
      ~( /\ lower(split(step_run.out[1])[i]) \in COLOR_WORDS
         /\ lower(split(step_run.out[1])[i + 1]) \in REMOVE_COLOR_FOR )

(***************************************************************************)
(* The batch search of the recipe import: import_search of api/recipes.py  *)
(* and search_products of scraper/algolia_direct.py.                       *)
(***************************************************************************)

\* the longest list of ingredients of a request, the largest max_results_per_item, the
\* most hits the search index answers with
MaxIngredients == 3

MaxResults == 2

MaxHits == 3

INGREDIENT_NAMES == {"olive oil", "xyzabc123"}

STORE_NUMBERS == {86, 24}

\* the lists of at most n elements of S
RECURSIVE SeqsUpTo(_, _)
SeqsUpTo(S, n) ==
  IF n = 0 THEN {<< >>}
  ELSE SeqsUpTo(S, n - 1) \cup {Append(q, e) : q \in {r \in SeqsUpTo(S, n - 1) : Len(r) = n - 1}, e \in S}

\* ImportSearchRequest: max_results_per_item is a count
IMPORT_REQUESTS ==
  [ingredients : SeqsUpTo(INGREDIENT_NAMES, MaxIngredients),
   max_results_per_item : 0..MaxResults,
   store_number : STORE_NUMBERS]

\* what the search index does when it is asked: it is down, or it answers with some hits
BACKENDS == {[up |-> FALSE, hits |-> 0]} \cup {[up |-> TRUE, hits |-> h] : h \in 0..MaxHits}

\* s[:n]
py_prefix(s, n) ==
  IF n >= 0 THEN SubSeq(s, 1, Min({n, Len(s)}))
  ELSE SubSeq(s, 1, Max({Len(s) + n, 0}))

\* a call that returned and a call that raised
returned(v) == [ok |-> TRUE, value |-> v]

raised(e) == [ok |-> FALSE, error |-> e]

\* def search_products(self, query, max_results=10): the parameters that a call may name
SEARCH_PARAMETERS == {"query", "max_results"}

\* STORE_NUMBER of the scraper, the store of the filter of every query
STORE_NUMBER == 86

\* the products built from the hits of the query with the filter storeNumber:STORE_NUMBER
products_of(query, hits) ==
  [k \in 1..hits |-> [name |-> query, rank |-> k, store_number |-> STORE_NUMBER]]

\* the products that the index has for a query at a store
products_at(query, hits, store_number) ==
  [k \in 1..hits |-> [name |-> query, rank |-> k, store_number |-> store_number]]

\* scraper.search_products(**kwargs) with the index behaving as backend: a keyword that
\* is no parameter raises TypeError before the body runs; the body raises what the
\* request raised, or returns the products
search_products(kwargs, backend) ==
  IF ~(DOMAIN kwargs \subseteq SEARCH_PARAMETERS)
  THEN raised("TypeError: search_products() got an unexpected keyword argument")
  ELSE IF ~backend.up THEN raised("ConnectionError")
  ELSE returned(products_of(kwargs.query, backend.hits))

\* the body of the loop with the search skipped as a whole when it fails
after_search_skip_failed(results, ingredient_name, n, outcome) ==
  IF outcome.ok
  THEN Append(results, [ingredient |-> ingredient_name,
                        matches |-> py_prefix(outcome.value, n),
                        match_count |-> Len(outcome.value)])
  ELSE results

\* results.append(...) of the try block, and of the except block
after_search(results, ingredient_name, n, outcome) ==
  IF outcome.ok
  THEN Append(results, [ingredient |-> ingredient_name,
                        matches |-> py_prefix(outcome.value, n),
                        match_count |-> Len(outcome.value)])
  ELSE Append(results, [ingredient |-> ingredient_name,
                        matches |-> << >>,
                        match_count |-> 0,
                        error |-> outcome.error])

\* store_number = request.store_number; scraper = AlgoliaDirectScraper(); results = []
InitImport ==
  /\ import_run \in {[at |-> "loop", request |-> r, i |-> 1, results |-> << >>,
                      searched |-> << >>, backends |-> << >>] : r \in IMPORT_REQUESTS}
  /\ shopping_carts = {}
  /\ cart_id_seq = 0
  /\ db_call = NoDbCall
  /\ NoMore
  /\ step_run = NoStepRun
  /\ strip_run = NoStripRun
  /\ bullet_run = NoBulletRun
  /\ NoCall

\* one round of `for ingredient_name in request.ingredients`: the search, and the entry
\* for what it returned or raised; searched keeps how each search ended, backends what
\* the index was doing
SearchIngredient ==
  /\ import_run.at = "loop"
  /\ import_run.i <= Len(import_run.request.ingredients)
  /\ \E backend \in BACKENDS :
       LET ingredient_name == import_run.request.ingredients[import_run.i]
           outcome == search_products(
                        [query |-> ingredient_name,
                         max_results |-> import_run.request.max_results_per_item,
                         store_number |-> import_run.request.store_number], backend)
       IN  import_run' =
             [import_run EXCEPT
                !.results = after_search(@, ingredient_name,
                                         import_run.request.max_results_per_item, outcome),
                !.searched = Append(@, outcome),
                !.backends = Append(@, backend),
                !.i = @ + 1]
  /\ UNCHANGED <<parser_vars, strip_run, bullet_run, step_run, cart_vars, more_vars>>

\* return {"success": True, "results": results, "total_ingredients": len(request.ingredients)}
ImportReturn ==
  /\ import_run.at = "loop"
  /\ import_run.i > Len(import_run.request.ingredients)
  /\ import_run' =
       [at |-> "done", request |-> import_run.request, searched |-> import_run.searched,
        backends |-> import_run.backends,
        response |-> [success |-> TRUE, results |-> import_run.results,
                      total_ingredients |-> Len(import_run.request.ingredients)]]
  /\ UNCHANGED <<parser_vars, strip_run, bullet_run, step_run, cart_vars, more_vars>>

NextImport ==
  \/ SearchIngredient
  \/ ImportReturn

SpecImport == InitImport /\ [][NextImport]_vars

(***************************************************************************)
(* The cart: add_to_cart, remove_from_cart, clear_cart, load_list_to_cart  *)
(* and load_recipe_to_cart of database.py, each in its own transaction of  *)
(* get_db, one call after the other.                                       *)
(***************************************************************************)

\* the most calls in a row
MaxCalls == 3

USERS == {"alice", "bob"}

STORES == {86, 24}

\* product dicts: a price that float() reads and one that it does not
PRODUCTS ==
  { [name |-> "milk", price |-> "$3.99"], [name |-> "eggs", price |-> "$3.99"],
    [name |-> "eggs", price |-> "market price"] }

QUANTITIES == {1, 2}

\* float(price_str) with the '$' removed: the price in cents, None for ValueError
to_float(price) == IF price = "$3.99" THEN Some(399) ELSE None

\* the saved lists and their items; the items of a list come from a cart, one for a product
SAVED_LISTS ==
  { [id |-> 1, user_id |-> "alice", store_number |-> 86],
    [id |-> 2, user_id |-> "bob",   store_number |-> 86] }

SAVED_LIST_ITEMS ==
  { [id |-> 31, list_id |-> 1, product_name |-> "milk",  quantity |-> 2],
    [id |-> 32, list_id |-> 1, product_name |-> "bread", quantity |-> 1],
    [id |-> 33, list_id |-> 2, product_name |-> "eggs",  quantity |-> 1] }

\* the ids of the calls: a list of alice, a list of bob, no list
LIST_IDS == {1, 2, 9}

\* the recipes and their items, one for a product
RECIPES ==
  { [id |-> 1, user_id |-> "alice", store_number |-> 86],
    [id |-> 2, user_id |-> "bob",   store_number |-> 86] }

RECIPE_ITEMS ==
  { [id |-> 11, recipe_id |-> 1, product_name |-> "milk",  quantity |-> 2],
    [id |-> 12, recipe_id |-> 1, product_name |-> "bread", quantity |-> 1],
    [id |-> 21, recipe_id |-> 2, product_name |-> "eggs",  quantity |-> 1] }

\* the ids of the calls: a recipe of alice, no recipe
RECIPE_IDS == {1, 9}

\* item_ids: None, no id, one id, an id of the recipe with one of another and one of no item
ITEM_IDS == {None, Some(<< >>), Some(<<11>>), Some(<<21, 99, 12>>)}

\* what the block of a `with get_db()` leaves: the rows, the sequence, the exception
block(rows, seq, error) == [rows |-> rows, seq |-> seq, raised |-> error]

\* WHERE user_id = %s AND store_number = %s
cart_of(rows, user_id, store_number) ==
  {r \in rows : r.user_id = user_id /\ r.store_number = store_number}

\* the rows of a SELECT as a list, by id
RECURSIVE by_id(_)
by_id(items) ==
  IF items = {} THEN << >>
  ELSE LET item == CHOOSE i \in items : \A j \in items : i.id <= j.id
       IN  <<item>> \o by_id(items \ {item})

\* the row that the unique index on (user_id, store_number, product_name) finds
conflicting(rows, user_id, store_number, product_name) ==
  {r \in cart_of(rows, user_id, store_number) : r.product_name = product_name}

\* INSERT INTO shopping_carts ... SELECT, item after item: each takes an id of the sequence;
\* where the index finds a row, ON CONFLICT ... DO UPDATE adds the quantity to that row,
\* and an INSERT without it raises
RECURSIVE insert_items(_, _, _, _, _, _)
insert_items(rows, seq, user_id, store_number, items, on_conflict_update) ==
  IF items = << >> THEN block(rows, seq, None)
  ELSE LET item == Head(items)
           found == conflicting(rows, user_id, store_number, item.product_name)
       IN  IF found = {}
           THEN insert_items(rows \cup {[id |-> seq + 1, user_id |-> user_id,
                                         store_number |-> store_number,
                                         product_name |-> item.product_name,
                                         quantity |-> item.quantity]},
                             seq + 1, user_id, store_number, Tail(items), on_conflict_update)
           ELSE IF on_conflict_update
           THEN insert_items((rows \ found) \cup
                               {[r EXCEPT !.quantity = @ + item.quantity] : r \in found},
                             seq + 1, user_id, store_number, Tail(items), on_conflict_update)
           ELSE block(rows, seq + 1, Some("UniqueViolation"))

\* add_to_cart with the INSERT alone
add_to_cart_insert_only(rows, seq, user_id, product, quantity, store_number) ==
  IF to_float(product.price) = None THEN block(rows, seq, Some("ValueError"))
  ELSE insert_items(rows, seq, user_id, store_number,
                    <<[product_name |-> product.name, quantity |-> quantity]>>, FALSE)

\* the block of add_to_cart: the row of the product is looked up; its quantity is
\* updated, or a row is inserted for it
add_to_cart(rows, seq, user_id, product, quantity, store_number) ==
  LET existing == conflicting(rows, user_id, store_number, product.name)
  IN  IF existing # {}
      THEN block((rows \ existing) \cup {[r EXCEPT !.quantity = @ + quantity] : r \in existing},
                 seq, None)
      ELSE IF to_float(product.price) = None THEN block(rows, seq, Some("ValueError"))
      ELSE insert_items(rows, seq, user_id, store_number,
                        <<[product_name |-> product.name, quantity |-> quantity]>>, FALSE)

\* the block of remove_from_cart
remove_from_cart(rows, seq, user_id, cart_item_id, store_number) ==
  block(rows \ {r \in cart_of(rows, user_id, store_number) : r.id = cart_item_id}, seq, None)

\* the block of clear_cart
clear_cart(rows, seq, user_id, store_number) ==
  block(rows \ cart_of(rows, user_id, store_number), seq, None)

\* load_list_to_cart that leaves the cart as it is and adds the items of the list to it
load_list_to_cart_keep_cart(rows, seq, user_id, list_id, store_number) ==
  LET list_info == {l \in SAVED_LISTS : l.id = list_id /\ l.user_id = user_id}
  IN  IF list_info = {} THEN block(rows, seq, Some("ValueError"))
      ELSE IF (CHOOSE l \in list_info : TRUE).store_number # store_number
      THEN block(rows, seq, Some("ValueError"))
      ELSE insert_items(rows, seq, user_id, store_number,
                        by_id({i \in SAVED_LIST_ITEMS : i.list_id = list_id}), TRUE)

\* the block of load_list_to_cart: the list is verified, the cart is cleared, the items of
\* the list are inserted
load_list_to_cart(rows, seq, user_id, list_id, store_number) ==
  LET list_info == {l \in SAVED_LISTS : l.id = list_id /\ l.user_id = user_id}
  IN  IF list_info = {} THEN block(rows, seq, Some("ValueError"))
      ELSE IF (CHOOSE l \in list_info : TRUE).store_number # store_number
      THEN block(rows, seq, Some("ValueError"))
      ELSE insert_items(rows \ cart_of(rows, user_id, store_number), seq, user_id, store_number,
                        by_id({i \in SAVED_LIST_ITEMS : i.list_id = list_id}), FALSE)

\* `if item_ids:` for an Optional list: neither None nor []
some_ids(item_ids) == item_ids # None /\ item_ids[1] # << >>

\* the elements of a list
Range(s) == {s[k] : k \in DOMAIN s}

\* the block of load_recipe_to_cart: the recipe is verified; the items of the recipe, those
\* of item_ids or all, are inserted, their quantity added where the product has a row
load_recipe_to_cart(rows, seq, user_id, recipe_id, store_number, item_ids) ==
  LET recipe_info == {r \in RECIPES : r.id = recipe_id /\ r.user_id = user_id}
      items == {i \in RECIPE_ITEMS : /\ i.recipe_id = recipe_id
                                     /\ some_ids(item_ids) => i.id \in Range(item_ids[1])}
  IN  IF recipe_info = {} THEN block(rows, seq, Some("ValueError"))
      ELSE IF (CHOOSE r \in recipe_info : TRUE).store_number # store_number
      THEN block(rows, seq, Some("ValueError"))
      ELSE insert_items(rows, seq, user_id, store_number, by_id(items), TRUE)

\* get_db around a block: commit when the block ends, rollback when it raises
committed(done) ==
  IF done.raised = None
  THEN /\ shopping_carts' = done.rows
       /\ cart_id_seq' = done.seq
  ELSE /\ shopping_carts' = shopping_carts
       /\ cart_id_seq' = done.seq

\* an empty table, no call yet
InitCart ==
  /\ shopping_carts = {}
  /\ cart_id_seq = 0
  /\ db_call = NoDbCall
  /\ NoMore
  /\ import_run = NoImportRun
  /\ step_run = NoStepRun
  /\ strip_run = NoStripRun
  /\ bullet_run = NoBulletRun
  /\ NoCall

CanCall == db_call.n < MaxCalls

AddToCart ==
  /\ CanCall
  /\ \E user_id \in USERS, product \in PRODUCTS, quantity \in QUANTITIES, store_number \in STORES :
       LET done == add_to_cart(shopping_carts, cart_id_seq, user_id, product, quantity, store_number)
       IN  /\ committed(done)
           /\ db_call' = [op |-> "add_to_cart", n |-> db_call.n + 1, user_id |-> user_id,
                          product |-> product, quantity |-> quantity,
                          store_number |-> store_number, raised |-> done.raised]
  /\ UNCHANGED <<parser_vars, strip_run, bullet_run, step_run, import_run, more_vars>>

RemoveFromCart ==
  /\ CanCall
  /\ \E user_id \in USERS, cart_item_id \in {r.id : r \in shopping_carts}, store_number \in STORES :
       LET done == remove_from_cart(shopping_carts, cart_id_seq, user_id, cart_item_id, store_number)
       IN  /\ committed(done)
           /\ db_call' = [op |-> "remove_from_cart", n |-> db_call.n + 1, user_id |-> user_id,
                          cart_item_id |-> cart_item_id,
                          store_number |-> store_number, raised |-> done.raised]
  /\ UNCHANGED <<parser_vars, strip_run, bullet_run, step_run, import_run, more_vars>>

ClearCart ==
  /\ CanCall
  /\ \E user_id \in USERS, store_number \in STORES :
       LET done == clear_cart(shopping_carts, cart_id_seq, user_id, store_number)
       IN  /\ committed(done)
           /\ db_call' = [op |-> "clear_cart", n |-> db_call.n + 1, user_id |-> user_id,
                          store_number |-> store_number, raised |-> done.raised]
  /\ UNCHANGED <<parser_vars, strip_run, bullet_run, step_run, import_run, more_vars>>

LoadListToCart ==
  /\ CanCall
  /\ \E user_id \in USERS, list_id \in LIST_IDS, store_number \in STORES :
       LET done == load_list_to_cart(shopping_carts, cart_id_seq, user_id, list_id, store_number)
       IN  /\ committed(done)
           /\ db_call' = [op |-> "load_list_to_cart", n |-> db_call.n + 1, user_id |-> user_id,
                          list_id |-> list_id,
                          store_number |-> store_number, raised |-> done.raised]
  /\ UNCHANGED <<parser_vars, strip_run, bullet_run, step_run, import_run, more_vars>>

LoadRecipeToCart ==
  /\ CanCall
  /\ \E user_id \in USERS, recipe_id \in RECIPE_IDS, store_number \in STORES, item_ids \in ITEM_IDS :
       LET done == load_recipe_to_cart(shopping_carts, cart_id_seq, user_id, recipe_id,
                                       store_number, item_ids)
       IN  /\ committed(done)
           /\ db_call' = [op |-> "load_recipe_to_cart", n |-> db_call.n + 1, user_id |-> user_id,
                          recipe_id |-> recipe_id, item_ids |-> item_ids,
                          store_number |-> store_number, raised |-> done.raised]
  /\ UNCHANGED <<parser_vars, strip_run, bullet_run, step_run, import_run, more_vars>>

\* the cart filled and emptied
NextCart ==
  \/ AddToCart
  \/ RemoveFromCart
  \/ ClearCart

SpecCart == InitCart /\ [][NextCart]_vars

\* the cart filled and replaced by a saved list
NextLists ==
  \/ AddToCart
  \/ LoadListToCart

SpecLists == InitCart /\ [][NextLists]_vars

\* the cart filled and a recipe added to it
NextRecipes ==
  \/ AddToCart
  \/ LoadRecipeToCart

SpecRecipes == InitCart /\ [][NextRecipes]_vars

(***************************************************************************)
(* The batch search and the cart: the properties.                          *)
(***************************************************************************)

\* C17: the response of import_search has one entry for each ingredient of the request, in
\* the order of the request, with at most max_results_per_item matches; a search that
\* failed has an entry with no matches and an error, and the ingredients after it were
\* searched all the same; total_ingredients is the number of entries, and no ingredient
\* gives no entry and a total of 0.
OneEntryEach ==
  import_run.at = "done" =>
    LET asked == import_run.request.ingredients
        entries == import_run.response.results
    IN  /\ Len(entries) = Len(asked)
        /\ Len(import_run.searched) = Len(asked)
        /\ \A k \in 1..Len(entries) :
             /\ entries[k].ingredient = asked[k]
             /\ Len(entries[k].matches) <= import_run.request.max_results_per_item
             /\ ~import_run.searched[k].ok =>
                  /\ entries[k].matches = << >>
                  /\ "error" \in DOMAIN entries[k]
        /\ import_run.response.total_ingredients = Len(entries)
        /\ asked = << >> =>
             entries = << >> /\ import_run.response.total_ingredients = 0

\* a response for three ingredients of which the first search failed
OneEntryEachWitness ==
  /\ import_run.at = "done"
  /\ Len(import_run.request.ingredients) = 3
  /\ ~import_run.searched[1].ok
  /\ Len(import_run.response.results) = 3
  /\ import_run.request.ingredients[3] # import_run.request.ingredients[1]

\* C26: import_search searches the store of the request: where the index was reachable,
\* the entry of an ingredient has the products found for that store as its matches, and
\* no error
StoreSearched ==
  import_run.at = "done" =>
    \A k \in 1..Len(import_run.response.results) :
      import_run.backends[k].up =>
        /\ "error" \notin DOMAIN import_run.response.results[k]
        /\ import_run.response.results[k].matches =
             py_prefix(products_at(import_run.request.ingredients[k],
                                   import_run.backends[k].hits,
                                   import_run.request.store_number),
                       import_run.request.max_results_per_item)

\* the call that the step is, when the step is a call of op
calls(op) == db_call'.op = op /\ db_call'.n = db_call.n + 1

\* the quantity of a product in a cart: that of its row, 0 without a row
quantity_in(rows, user_id, store_number, product_name) ==
  LET found == conflicting(rows, user_id, store_number, product_name)
  IN  IF found = {} THEN 0 ELSE (CHOOSE r \in found : TRUE).quantity

\* at most one row for a user, a store and a product
one_row_each(rows) ==
  \A r1, r2 \in rows :
     r1.user_id = r2.user_id /\ r1.store_number = r2.store_number
       /\ r1.product_name = r2.product_name => r1 = r2

\* the rows of the other users, stores and products
other_rows(rows, user_id, store_number, names) ==
  {r \in rows : ~(r.user_id = user_id /\ r.store_number = store_number
                    /\ r.product_name \in names)}

\* C18: each call of add_to_cart, one after the other, leaves at most one row for a user,
\* a store and a product, with the quantity that the product had in the cart (none when it
\* was absent) plus the quantity of the call, so the row holds the sum of the calls since
\* the product was last absent; the rows of other users, stores and products stay as they
\* were.
AddSums ==
  [][calls("add_to_cart") =>
       LET c == db_call'
       IN  /\ one_row_each(shopping_carts')
           /\ quantity_in(shopping_carts', c.user_id, c.store_number, c.product.name) =
                IF c.raised = None
                THEN quantity_in(shopping_carts, c.user_id, c.store_number, c.product.name)
                       + c.quantity
                ELSE 0
           /\ other_rows(shopping_carts', c.user_id, c.store_number, {c.product.name}) =
                other_rows(shopping_carts, c.user_id, c.store_number, {c.product.name})]_vars

\* alice has added milk twice, 3 in all in one row, bob once in between
AddSumsWitness ==
  /\ db_call.op = "add_to_cart"
  /\ db_call.user_id = "alice"
  /\ db_call.n = 3
  /\ quantity_in(shopping_carts, "alice", 86, "milk") = 3
  /\ quantity_in(shopping_carts, "bob", 86, "milk") = 1
  /\ Cardinality(shopping_carts) = 2

\* the products and quantities of a set of rows or items
contents(items) == {<<i.product_name, i.quantity>> : i \in items}

\* C19: a call of load_list_to_cart for a list of the user and of the store leaves in the
\* cart of the user for the store the items of the list and nothing else, in rows that
\* were not there before; a call for a list that does not exist, or is another user's, or
\* is for another store, raises ValueError and leaves the user's cart as it was.
ListReplaces ==
  [][calls("load_list_to_cart") =>
       LET c == db_call'
           list_items == {i \in SAVED_LIST_ITEMS : i.list_id = c.list_id}
           before == cart_of(shopping_carts, c.user_id, c.store_number)
           after == cart_of(shopping_carts', c.user_id, c.store_number)
       IN  IF \E l \in SAVED_LISTS : /\ l.id = c.list_id
                                     /\ l.user_id = c.user_id
                                     /\ l.store_number = c.store_number
           THEN /\ c.raised = None
                /\ contents(after) = contents(list_items)
                /\ Cardinality(after) = Cardinality(list_items)
                /\ after \cap before = {}
           ELSE /\ c.raised = Some("ValueError")
                /\ {r \in shopping_carts' : r.user_id = c.user_id} =
                     {r \in shopping_carts : r.user_id = c.user_id}]_vars

\* alice's list has been loaded over the two rows that her cart held: they are gone, and
\* the rows of the list are there
ListReplacesWitness ==
  /\ db_call.op = "load_list_to_cart"
  /\ db_call.raised = None
  /\ db_call.n = 3
  /\ cart_id_seq = 4
  /\ {r.id : r \in shopping_carts} = {3, 4}

\* the recipe items that a call of load_recipe_to_cart is to add: those of item_ids when a
\* list is given, whatever its length, and all of the recipe otherwise
asked_items(recipe_id, item_ids) ==
  {i \in RECIPE_ITEMS : /\ i.recipe_id = recipe_id
                        /\ item_ids # None => i.id \in Range(item_ids[1])}

\* C20: a call of load_recipe_to_cart adds to the cart: the rows of the products that are
\* not added stay as they were, a product that has a row has its quantity raised by that
\* of the recipe item, a product without one gets a row; with item_ids given, an empty list
\* too, the items of item_ids are added and no other, and without it all of the recipe.
RecipeMerges ==
  [][calls("load_recipe_to_cart") /\ db_call'.raised = None =>
       LET c == db_call'
           items == asked_items(c.recipe_id, c.item_ids)
       IN  /\ one_row_each(shopping_carts')
           /\ \A i \in items :
                quantity_in(shopping_carts', c.user_id, c.store_number, i.product_name) =
                  quantity_in(shopping_carts, c.user_id, c.store_number, i.product_name)
                    + i.quantity
           /\ other_rows(shopping_carts', c.user_id, c.store_number,
                         {i.product_name : i \in items}) =
                other_rows(shopping_carts, c.user_id, c.store_number,
                           {i.product_name : i \in items})]_vars

(***************************************************************************)
(* The favorites: update_frequent_items, add_favorite and remove_favorite  *)
(* of database.py, each in its own transaction, one call after the other.  *)
(***************************************************************************)

\* the most calls in a row
MaxFavoriteCalls == 4

\* purchase_count of a manual favorite
MANUAL_COUNT == 999

\* the least purchase_count of a frequent item
FREQUENT_MIN == 2

FAVORITE_NAMES == {"milk", "eggs"}

FAVORITE_PRICES == {"$3.99", "market price"}

\* the carts that a purchase is counted from
COMPLETED_CARTS ==
  { {}, {[id |-> 1, user_id |-> "alice", store_number |-> 86, product_name |-> "milk", quantity |-> 1]},
    {[id |-> 1, user_id |-> "alice", store_number |-> 86, product_name |-> "milk", quantity |-> 2],
     [id |-> 2, user_id |-> "alice", store_number |-> 86, product_name |-> "eggs", quantity |-> 1]} }

\* the row that the unique index on (user_id, store_number, product_name) finds
favorite_of(rows, user_id, store_number, product_name) ==
  {r \in rows : r.user_id = user_id /\ r.store_number = store_number
                  /\ r.product_name = product_name}

\* the block of update_frequent_items: each product of the cart gets a row with
\* purchase_count 1, or one more on the row that it has
update_frequent_items(rows, cart, user_id, store_number) ==
  LET names == {c.product_name : c \in cart_of(cart, user_id, store_number)}
      mine(r) == r.user_id = user_id /\ r.store_number = store_number /\ r.product_name \in names
  IN  {IF mine(r) THEN [r EXCEPT !.purchase_count = @ + 1] ELSE r : r \in rows}
        \cup {[user_id |-> user_id, store_number |-> store_number, product_name |-> n,
               purchase_count |-> 1, is_manual |-> FALSE] :
                n \in {m \in names : favorite_of(rows, user_id, store_number, m) = {}}}

\* the block of add_favorite: a row with is_manual and purchase_count 999, or is_manual and
\* GREATEST(purchase_count, 999) on the row that the product has; None for the ValueError
\* of float(price)
add_favorite(rows, user_id, product_name, price, store_number) ==
  IF to_float(price) = None THEN None
  ELSE IF favorite_of(rows, user_id, store_number, product_name) = {}
  THEN Some(rows \cup {[user_id |-> user_id, store_number |-> store_number,
                        product_name |-> product_name,
                        purchase_count |-> MANUAL_COUNT, is_manual |-> TRUE]})
  ELSE Some({IF r \in favorite_of(rows, user_id, store_number, product_name)
             THEN [r EXCEPT !.is_manual = TRUE,
                            !.purchase_count = Max({@, MANUAL_COUNT})]
             ELSE r : r \in rows})

\* the block of remove_favorite: the UPDATE clears is_manual and puts a purchase_count of
\* 999 or more back to 1; the DELETE removes the row when its count is below 2
remove_favorite(rows, user_id, product_name, store_number) ==
  LET updated == {IF r \in favorite_of(rows, user_id, store_number, product_name)
                  THEN [r EXCEPT !.is_manual = FALSE,
                                 !.purchase_count = IF @ >= MANUAL_COUNT THEN 1 ELSE @]
                  ELSE r : r \in rows}
  IN  {r \in updated : ~(/\ r \in favorite_of(updated, user_id, store_number, product_name)
                         /\ r.purchase_count < FREQUENT_MIN
                         /\ r.is_manual = FALSE)}

\* get_frequent_items: the rows that are not manual and have a purchase_count of 2 or more
get_frequent_items(rows, user_id, store_number) ==
  {r \in rows : /\ r.user_id = user_id /\ r.store_number = store_number
                /\ r.is_manual = FALSE /\ r.purchase_count >= FREQUENT_MIN}

\* a completed cart, no favorite, nothing purchased
InitFavorites ==
  /\ shopping_carts \in COMPLETED_CARTS
  /\ cart_id_seq = 2
  /\ db_call = NoDbCall
  /\ frequent_items = {}
  /\ purchased = [n \in FAVORITE_NAMES |-> 0]
  /\ NoAuth
  /\ NoSessions
  /\ import_run = NoImportRun
  /\ step_run = NoStepRun
  /\ strip_run = NoStripRun
  /\ bullet_run = NoBulletRun
  /\ NoCall

CanCallFavorites == db_call.n < MaxFavoriteCalls

\* update_frequent_items for alice at store 86; purchased counts the purchase
UpdateFrequentItems ==
  /\ CanCallFavorites
  /\ frequent_items' = update_frequent_items(frequent_items, shopping_carts, "alice", 86)
  /\ purchased' = [n \in FAVORITE_NAMES |->
                     IF n \in {c.product_name : c \in cart_of(shopping_carts, "alice", 86)}
                     THEN purchased[n] + 1 ELSE purchased[n]]
  /\ db_call' = [op |-> "update_frequent_items", n |-> db_call.n + 1, raised |-> None]
  /\ UNCHANGED <<parser_vars, strip_run, bullet_run, step_run, import_run,
                 shopping_carts, cart_id_seq, auth_vars, tx_vars>>

\* add_favorite for alice at store 86
AddFavorite ==
  /\ CanCallFavorites
  /\ \E product_name \in FAVORITE_NAMES, price \in FAVORITE_PRICES :
       LET done == add_favorite(frequent_items, "alice", product_name, price, 86)
       IN  /\ frequent_items' = IF done = None THEN frequent_items ELSE done[1]
           /\ db_call' = [op |-> "add_favorite", n |-> db_call.n + 1,
                          product_name |-> product_name,
                          raised |-> IF done = None THEN Some("ValueError") ELSE None]
  /\ UNCHANGED <<parser_vars, strip_run, bullet_run, step_run, import_run,
                 shopping_carts, cart_id_seq, purchased, auth_vars, tx_vars>>

\* remove_favorite for alice at store 86
RemoveFavorite ==
  /\ CanCallFavorites
  /\ \E product_name \in FAVORITE_NAMES :
       /\ frequent_items' = remove_favorite(frequent_items, "alice", product_name, 86)
       /\ db_call' = [op |-> "remove_favorite", n |-> db_call.n + 1,
                      product_name |-> product_name, raised |-> None]
  /\ UNCHANGED <<parser_vars, strip_run, bullet_run, step_run, import_run,
                 shopping_carts, cart_id_seq, purchased, auth_vars, tx_vars>>

NextFavorites ==
  \/ UpdateFrequentItems
  \/ AddFavorite
  \/ RemoveFavorite

SpecFavorites == InitFavorites /\ [][NextFavorites]_vars

(***************************************************************************)
(* The favorites, the sessions and the transactions: the properties.       *)
(***************************************************************************)

\* C21: after a call of remove_favorite, a product that update_frequent_items has counted
\* twice or more is still there as a frequent item that is not manual, and a product that
\* it has counted less than twice has no row.
RemoveKeepsFrequent ==
  db_call.op = "remove_favorite" =>
    IF purchased[db_call.product_name] >= 2
    THEN \E r \in get_frequent_items(frequent_items, "alice", 86) :
            r.product_name = db_call.product_name
    ELSE favorite_of(frequent_items, "alice", 86, db_call.product_name) = {}

(***************************************************************************)
(* The sessions: get_current_user, get_current_user_optional,              *)
(* get_or_create_anonymous_user and create_anonymous_user of auth.py.      *)
(***************************************************************************)

\* the most requests in a row
MaxRequests == 2

\* the registered account and the anonymous user that the table holds at the start
CAROL == [id |-> "id-carol", email |-> Some("carol@example.com"), is_anonymous |-> FALSE]

USERS_AT_START == {CAROL, [id |-> "id-anon", email |-> None, is_anonymous |-> TRUE]}

\* the bearer tokens: one that Supabase verifies as carol's until it expires, one without
\* expiry in it, one that Supabase rejects
TOKENS == {"carol-token", "carol-token-no-exp", "forged-token"}

\* decoded.get('exp', 0), and 0 when the token does not decode
exp_of(token) == IF token = "carol-token" THEN 2 ELSE 0

\* the times of the requests: before and after the expiry of carol's token
TIMES == {1, 3}

\* supabase.auth.get_user(token) at a time: a response with the user of the token, a
\* response without user, an exception for a token that is rejected or has expired
supabase_get_user(token, now) ==
  IF token = "carol-token" /\ now < 2 THEN [raises |-> FALSE, user |-> Some(CAROL)]
  ELSE IF token = "carol-token-no-exp" THEN [raises |-> FALSE, user |-> Some(CAROL)]
  ELSE IF token = "forged-token" /\ now = 1 THEN [raises |-> FALSE, user |-> None]
  ELSE [raises |-> TRUE, user |-> None]

\* whether the bearer token of a request is one that Supabase verifies at the time
valid_token(credentials, now) ==
  /\ credentials # None
  /\ supabase_get_user(credentials[1].credentials, now).user # None

\* the values of the header X-Anonymous-User-ID: none, empty, the id of the anonymous
\* user, an id that the table does not hold, the id of the registered account
ANONYMOUS_IDS == {None, Some(""), Some("id-anon"), Some("id-new"), Some(CAROL.id)}

\* the Request and the HTTPAuthorizationCredentials of a request
request_of(anonymous_id) == [kind |-> "Request", anonymous_id |-> anonymous_id]

CREDENTIALS == {None} \cup {Some([kind |-> "HTTPAuthorizationCredentials", credentials |-> t]) : t \in TOKENS}

\* what a request meets: the time, whether the Supabase client is there, whether the two
\* database transactions that it may open succeed, the uuid4 of a new anonymous user
CONDITIONS ==
  [now : TIMES, supabase : BOOLEAN, db_first : BOOLEAN, db_second : BOOLEAN]

\* AuthUser(user_id, email, is_anonymous)
AuthUser(user_id, email, is_anonymous) ==
  [id |-> user_id, email |-> email, is_anonymous |-> is_anonymous]

\* what a dependency leaves: the user or the exception, the table, the cache
given(user, table, cache) == [ok |-> TRUE, user |-> user, table |-> table, cache |-> cache]

failed(error, table, cache) == [ok |-> FALSE, error |-> error, table |-> table, cache |-> cache]

\* INSERT INTO users (id, email, is_anonymous) VALUES (%s, NULL, TRUE) ON CONFLICT (id) DO NOTHING
insert_anonymous(table, user_id) ==
  IF \E u \in table : u.id = user_id THEN table
  ELSE table \cup {[id |-> user_id, email |-> None, is_anonymous |-> TRUE]}

\* create_anonymous_user with anon_id for str(uuid.uuid4()): the user of that id, in the
\* table when the transaction succeeds
create_anonymous_user(table, cache, anon_id, db_ok) ==
  given(AuthUser(anon_id, None, TRUE),
        IF db_ok THEN insert_anonymous(table, anon_id) ELSE table, cache)

\* get_or_create_anonymous_user: the user of the id of the header, whether the table holds
\* an anonymous user of that id, or takes a new row for it, or holds another row of that
\* id; create_anonymous_user when the transaction fails
get_or_create_anonymous_user(table, cache, anonymous_id, anon_id, db_first, db_second) ==
  IF ~db_first THEN create_anonymous_user(table, cache, anon_id, db_second)
  ELSE IF \E u \in table : u.id = anonymous_id /\ u.is_anonymous
  THEN given(AuthUser(anonymous_id, None, TRUE), table, cache)
  ELSE given(AuthUser(anonymous_id, None, TRUE), insert_anonymous(table, anonymous_id), cache)

\* whether an object has the attribute
hasattr(object, name) == name \in DOMAIN object

\* the anonymous user of a request: request.headers.get('X-Anonymous-User-ID'), and
\* get_or_create_anonymous_user when it is there and not empty
anonymous_user(table, cache, request, anon_id, met) ==
  IF hasattr(request, "anonymous_id") /\ truthy(request.anonymous_id)
  THEN get_or_create_anonymous_user(table, cache, request.anonymous_id[1], anon_id,
                                    met.db_first, met.db_second)
  ELSE create_anonymous_user(table, cache, anon_id, met.db_first)

\* the try block of get_current_user for a token
verified(table, cache, token, met) ==
  IF \E e \in cache : e.token = token /\ met.now < e.expiry
  THEN given((CHOOSE e \in cache : e.token = token).user, table, cache)
  ELSE IF ~met.supabase THEN failed("HTTPException 503", table, cache)
  ELSE LET response == supabase_get_user(token, met.now)
       IN  IF response.raises \/ response.user = None
           THEN failed("HTTPException 401", table, cache)
           ELSE LET auth_user == AuthUser(response.user[1].id, response.user[1].email, FALSE)
                IN  given(auth_user, table,
                          {e \in cache : e.token # token}
                            \cup {[token |-> token, user |-> auth_user,
                                   expiry |-> exp_of(token)]})

\* get_current_user(request, credentials): the two parameters take what the caller passes
\* in their places
get_current_user(table, cache, request, credentials, anon_id, met) ==
  IF credentials = None THEN anonymous_user(table, cache, request, anon_id, met)
  ELSE IF ~hasattr(credentials[1], "credentials")
  THEN failed("AttributeError", table, cache)
  ELSE verified(table, cache, credentials[1].credentials, met)

\* get_current_user_optional(request, credentials): get_current_user is called with
\* (credentials, request), and an HTTPException of it gives the anonymous user
get_current_user_optional(table, cache, request, credentials, anon_id, met) ==
  IF credentials = None THEN anonymous_user(table, cache, request, anon_id, met)
  ELSE LET got == get_current_user(table, cache, credentials[1], Some(request), anon_id, met)
       IN  IF got.ok \/ got.error \notin {"HTTPException 401", "HTTPException 503"} THEN got
           ELSE anonymous_user(got.table, got.cache, request, anon_id, met)

\* the table with the account and one anonymous user, no token verified yet
InitAuth ==
  /\ users = USERS_AT_START
  /\ token_cache = {}
  /\ auth_run = NoAuthRun
  /\ frequent_items = {}
  /\ purchased = << >>
  /\ NoSessions
  /\ shopping_carts = {}
  /\ cart_id_seq = 0
  /\ db_call = NoDbCall
  /\ import_run = NoImportRun
  /\ step_run = NoStepRun
  /\ strip_run = NoStripRun
  /\ bullet_run = NoBulletRun
  /\ NoCall

CanAuthenticate == auth_run.n < MaxRequests

\* the uuid4 of the request
uuid4 == <<"id-uuid-1", "id-uuid-2", "id-uuid-3">>[auth_run.n + 1]

\* auth_run after a request
authenticated(op, anonymous_id, credentials, met, got) ==
  [op |-> op, n |-> auth_run.n + 1, anonymous_id |-> anonymous_id,
   credentials |-> credentials, now |-> met.now,
   ok |-> got.ok, user |-> IF got.ok THEN Some(got.user) ELSE None,
   error |-> IF got.ok THEN None ELSE Some(got.error)]

\* a request to a route that depends on get_current_user
GetCurrentUser ==
  /\ CanAuthenticate
  /\ \E anonymous_id \in ANONYMOUS_IDS, credentials \in CREDENTIALS, met \in CONDITIONS :
       LET got == get_current_user(users, token_cache, request_of(anonymous_id), credentials,
                                   uuid4, met)
       IN  /\ users' = got.table
           /\ token_cache' = got.cache
           /\ auth_run' = authenticated("get_current_user", anonymous_id, credentials, met, got)
  /\ UNCHANGED <<parser_vars, strip_run, bullet_run, step_run, import_run, cart_vars,
                 favorite_vars, tx_vars>>

\* a request to a route that depends on get_current_user_optional
GetCurrentUserOptional ==
  /\ CanAuthenticate
  /\ \E anonymous_id \in ANONYMOUS_IDS, credentials \in CREDENTIALS, met \in CONDITIONS :
       LET got == get_current_user_optional(users, token_cache, request_of(anonymous_id),
                                            credentials, uuid4, met)
       IN  /\ users' = got.table
           /\ token_cache' = got.cache
           /\ auth_run' = authenticated("get_current_user_optional", anonymous_id,
                                        credentials, met, got)
  /\ UNCHANGED <<parser_vars, strip_run, bullet_run, step_run, import_run, cart_vars,
                 favorite_vars, tx_vars>>

NextAuth ==
  \/ GetCurrentUser
  \/ GetCurrentUserOptional

SpecAuth == InitAuth /\ [][NextAuth]_vars

(***************************************************************************)
(* The sessions: the properties.                                           *)
(***************************************************************************)

\* C22: get_current_user_optional rejects no request: without credentials it gives an
\* anonymous user; with a token that is valid, the user of the token, not anonymous, with
\* the id and email of the token; with a token that is invalid or has expired, an
\* anonymous user, and no exception.
OptionalNeverRejects ==
  auth_run.op = "get_current_user_optional" =>
    /\ auth_run.ok
    /\ IF valid_token(auth_run.credentials, auth_run.now)
       THEN auth_run.user = Some(AuthUser(CAROL.id, CAROL.email, FALSE))
       ELSE auth_run.user[1].is_anonymous

\* C29: a request without a valid bearer token is never given a user with the id of a
\* registered account, whatever its X-Anonymous-User-ID, the id of an account included.
NoAccountWithoutToken ==
  /\ auth_run.op # "none"
  /\ ~valid_token(auth_run.credentials, auth_run.now)
  /\ auth_run.ok
  => \A u \in users : ~u.is_anonymous => auth_run.user[1].id # u.id

(***************************************************************************)
(* get_db and the calls of add_to_cart that run at the same time: each     *)
(* call is a session that takes a connection of the pool, runs the         *)
(* statements of its block one at a time, commits or rolls back, and puts  *)
(* the connection back.  The database is PostgreSQL at READ COMMITTED: a   *)
(* statement sees the rows committed before it began; an UPDATE waits for  *)
(* the transaction that holds the row, an INSERT for the transaction that  *)
(* holds its key in the unique index.                                      *)
(***************************************************************************)

\* the most calls at the same time
NumSessions == 3

\* maxconn of the pool, scaled down from 10 so that the calls can exhaust it
MaxConn == 2

\* the product of the calls: one name, a price that float() reads and one that it does not
SESSION_PRODUCTS == {p \in PRODUCTS : p.name = "eggs"}

\* the cart before the calls: empty, or with a row of the product
CARTS_AT_START ==
  { {},
    {[id |-> 1, user_id |-> "alice", store_number |-> 86, product_name |-> "eggs",
      quantity |-> 1]} }

NoWrite == [kind |-> "none", id |-> 0, quantity |-> 0]

\* the s-th call: add_to_cart("alice", product, s, 86), before `with get_db()`
session_of(s, product) ==
  [pc |-> "getconn", product |-> product, quantity |-> s, conn |-> FALSE,
   existing |-> None, write |-> NoWrite, block |-> "none", raised |-> None,
   commits |-> 0, rollbacks |-> 0, putconns |-> 0]

\* conn_pool.getconn(): a connection while the pool has one left, PoolError after that
getconn(used) == used < MaxConn

\* a finally clause that keeps the connection
putconn_never(conn, used) == used

\* `if conn: conn_pool.putconn(conn)`: the connections checked out after the finally clause
putconn(conn, used) == IF conn THEN used - 1 ELSE used

\* cursor.fetchone() after the SELECT of add_to_cart: the id and the quantity of the row
fetchone(rows, product) ==
  LET found == conflicting(rows, "alice", 86, product.name)
  IN  IF found = {} THEN None
      ELSE LET r == CHOOSE r \in found : TRUE IN Some([id |-> r.id, quantity |-> r.quantity])

\* another transaction has updated the row and has not ended
row_locked(all, s, id) ==
  \E t \in DOMAIN all :
    t # s /\ all[t].pc = "commit" /\ all[t].write.kind = "update" /\ all[t].write.id = id

\* another transaction has inserted a row of the key and has not ended
key_locked(all, s) ==
  \E t \in DOMAIN all : t # s /\ all[t].pc = "commit" /\ all[t].write.kind = "insert"

\* conn.commit(): the write of the transaction reaches the table
commit(rows, call) ==
  IF call.write.kind = "insert"
  THEN rows \cup {[id |-> call.write.id, user_id |-> "alice", store_number |-> 86,
                   product_name |-> call.product.name, quantity |-> call.write.quantity]}
  ELSE IF call.write.kind = "update"
  THEN {IF r.id = call.write.id THEN [r EXCEPT !.quantity = call.write.quantity] ELSE r : r \in rows}
  ELSE rows

InitSessions ==
  /\ \E n \in 2..NumSessions : \E products \in [1..n -> SESSION_PRODUCTS] :
       sessions = [s \in 1..n |-> session_of(s, products[s])]
  /\ pool_used = 0
  /\ cart_at_start \in CARTS_AT_START
  /\ shopping_carts = cart_at_start
  /\ cart_id_seq = Cardinality(cart_at_start)
  /\ db_call = NoDbCall
  /\ NoFavorites
  /\ NoAuth
  /\ import_run = NoImportRun
  /\ step_run = NoStepRun
  /\ strip_run = NoStripRun
  /\ bullet_run = NoBulletRun
  /\ NoCall

\* conn = conn_pool.getconn(); cursor = conn.cursor(...)
GetConn ==
  /\ \E s \in DOMAIN sessions :
       /\ sessions[s].pc = "getconn"
       /\ IF getconn(pool_used)
          THEN /\ sessions' = [sessions EXCEPT ![s].pc = "select", ![s].conn = TRUE]
               /\ pool_used' = pool_used + 1
          ELSE /\ sessions' = [sessions EXCEPT ![s].pc = "except", ![s].raised = Some("PoolError")]
               /\ pool_used' = pool_used
  /\ UNCHANGED <<parser_vars, strip_run, bullet_run, step_run, import_run, cart_vars,
                 favorite_vars, auth_vars, cart_at_start>>

\* the SELECT of add_to_cart and existing = cursor.fetchone()
SelectExisting ==
  /\ \E s \in DOMAIN sessions :
       /\ sessions[s].pc = "select"
       /\ sessions' = [sessions EXCEPT ![s].pc = "write",
                                       ![s].existing = fetchone(shopping_carts, sessions[s].product)]
  /\ UNCHANGED <<parser_vars, strip_run, bullet_run, step_run, import_run, cart_vars,
                 favorite_vars, auth_vars, pool_used, cart_at_start>>

\* `if existing:` the UPDATE with new_qty, after which the block ends
UpdateQuantity ==
  /\ \E s \in DOMAIN sessions :
       /\ sessions[s].pc = "write"
       /\ sessions[s].existing # None
       /\ ~row_locked(sessions, s, sessions[s].existing[1].id)
       /\ sessions' = [sessions EXCEPT
            ![s].pc = "commit", ![s].block = "returned",
            ![s].write = [kind |-> "update", id |-> sessions[s].existing[1].id,
                          quantity |-> sessions[s].existing[1].quantity + sessions[s].quantity]]
  /\ UNCHANGED <<parser_vars, strip_run, bullet_run, step_run, import_run, cart_vars,
                 favorite_vars, auth_vars, pool_used, cart_at_start>>

\* `else:` float(price_str) and the INSERT, after which the block ends
InsertRow ==
  /\ \E s \in DOMAIN sessions :
       /\ sessions[s].pc = "write"
       /\ sessions[s].existing = None
       /\ IF to_float(sessions[s].product.price) = None
          THEN /\ sessions' = [sessions EXCEPT ![s].pc = "except", ![s].block = "raised",
                                               ![s].raised = Some("ValueError")]
               /\ cart_id_seq' = cart_id_seq
          ELSE /\ ~key_locked(sessions, s)
               /\ IF fetchone(shopping_carts, sessions[s].product) # None
                  THEN /\ sessions' = [sessions EXCEPT ![s].pc = "except", ![s].block = "raised",
                                                       ![s].raised = Some("UniqueViolation")]
                       /\ cart_id_seq' = cart_id_seq
                  ELSE /\ sessions' = [sessions EXCEPT
                            ![s].pc = "commit", ![s].block = "returned",
                            ![s].write = [kind |-> "insert", id |-> cart_id_seq + 1,
                                          quantity |-> sessions[s].quantity]]
                       /\ cart_id_seq' = cart_id_seq + 1
  /\ UNCHANGED <<parser_vars, strip_run, bullet_run, step_run, import_run, shopping_carts,
                 db_call, favorite_vars, auth_vars, pool_used, cart_at_start>>

\* conn.commit() after the yield
Commit ==
  /\ \E s \in DOMAIN sessions :
       /\ sessions[s].pc = "commit"
       /\ shopping_carts' = commit(shopping_carts, sessions[s])
       /\ sessions' = [sessions EXCEPT ![s].pc = "finally", ![s].commits = @ + 1]
  /\ UNCHANGED <<parser_vars, strip_run, bullet_run, step_run, import_run, cart_id_seq,
                 db_call, favorite_vars, auth_vars, pool_used, cart_at_start>>

\* except Exception: `if conn: conn.rollback()` and raise
Rollback ==
  /\ \E s \in DOMAIN sessions :
       /\ sessions[s].pc = "except"
       /\ sessions' = [sessions EXCEPT
            ![s].pc = "finally", ![s].write = NoWrite,
            ![s].rollbacks = IF sessions[s].conn THEN @ + 1 ELSE @]
  /\ UNCHANGED <<parser_vars, strip_run, bullet_run, step_run, import_run, cart_vars,
                 favorite_vars, auth_vars, pool_used, cart_at_start>>

\* finally: `if conn: conn_pool.putconn(conn)`
PutConn ==
  /\ \E s \in DOMAIN sessions :
       /\ sessions[s].pc = "finally"
       /\ pool_used' = putconn(sessions[s].conn, pool_used)
       /\ sessions' = [sessions EXCEPT
            ![s].pc = "done",
            ![s].putconns = @ + (pool_used - putconn(sessions[s].conn, pool_used))]
  /\ UNCHANGED <<parser_vars, strip_run, bullet_run, step_run, import_run, cart_vars,
                 favorite_vars, auth_vars, cart_at_start>>

NextSessions ==
  \/ GetConn
  \/ SelectExisting
  \/ UpdateQuantity
  \/ InsertRow
  \/ Commit
  \/ Rollback
  \/ PutConn

SpecSessions == InitSessions /\ [][NextSessions]_vars

\* every call has left its `with get_db()`
AllDone == \A s \in DOMAIN sessions : sessions[s].pc = "done"

\* C23: a use of get_db commits exactly when its block exits normally; when the block
\* raises, it rolls back and the exception goes on to the caller; on every path the
\* connection that was taken is put back once, and when every use has ended no
\* connection is checked out
GetDbTransactional ==
  /\ \A s \in DOMAIN sessions :
       sessions[s].pc = "done" =>
         /\ sessions[s].commits = (IF sessions[s].block = "returned" THEN 1 ELSE 0)
         /\ sessions[s].block = "raised" =>
              sessions[s].rollbacks = 1 /\ sessions[s].raised # None
         /\ sessions[s].putconns = (IF sessions[s].conn THEN 1 ELSE 0)
  /\ AllDone => pool_used = 0

\* calls have ended in each way: one committed, one rolled back, one found the pool exhausted
GetDbTransactionalWitness ==
  /\ AllDone
  /\ \E s \in DOMAIN sessions : sessions[s].block = "returned" /\ sessions[s].commits = 1
  /\ \E s \in DOMAIN sessions : sessions[s].block = "raised" /\ sessions[s].rollbacks = 1
  /\ \E s \in DOMAIN sessions : sessions[s].raised = Some("PoolError")

\* the rows of the product in the cart
rows_of_product == conflicting(shopping_carts, "alice", 86, "eggs")

\* the quantity of the product before the calls
quantity_at_start ==
  LET rows == conflicting(cart_at_start, "alice", 86, "eggs")
  IN  IF rows = {} THEN 0 ELSE (CHOOSE r \in rows : TRUE).quantity

\* C30: two calls of add_to_cart for one product, at the same time and in any order,
\* leave one row of the product, with the quantity of both added, and neither fails
BothAdded ==
  ( /\ Len(sessions) = 2
    /\ AllDone
    /\ \A s \in DOMAIN sessions : to_float(sessions[s].product.price) # None )
  => /\ \A s \in DOMAIN sessions : sessions[s].raised = None
     /\ \E r \in rows_of_product :
          /\ rows_of_product = {r}
          /\ r.quantity = quantity_at_start + sessions[1].quantity + sessions[2].quantity
====
